---- MODULE Spec2Model ----
(***************************************************************************)
(* A model of the delivery manager: the product-field parser, the field   *)
(* validators, the address history file, the orders CSV file with its     *)
(* JSON column, and the reads of the agents and catalog files.            *)
(*                                                                         *)
(* Text is modelled character by character: a Python str is a sequence of *)
(* one-character strings, so that trimming, splitting, quoting and        *)
(* parsing are computed the way the code computes them.                   *)
(***************************************************************************)
EXTENDS Integers, Sequences, FiniteSets, TLC

VARIABLES
    field_text,     \* parse_product_field: the argument
    parsed,         \* parse_product_field: the outcome, NotCalled before the call
    value,          \* the validators' argument: a str or None
    verdict,        \* the validator called last and its outcome
    addresses_file, \* the addresses file on disk
    saved,          \* the arguments of the save_address calls so far, oldest first
    agents_file,    \* the agents file on disk
    products_file,  \* the product catalog on disk
    orders_file,    \* the orders CSV file on disk
    export_call,    \* export_orders: the orders of the last call and its outcome
    edited,         \* the rows of the orders file when it was last written by hand
    loaded,         \* the read called last, the file it found and its outcome
    table,          \* the rows of the order table: the cell texts and the tags of each
    products,       \* the catalog the application loaded: code -> price
    last,           \* the operation run last: its name, what it acted on, its outcome
    instances,      \* the application instances running save_address on one file
    saving,         \* a Save CSV attempt: its phase, the file before, the rows written
    app_agents,     \* the application's list of agents (DeliveryApp.agents)
    agents_dialog   \* the agents dialog: whether it is open, its list, its listbox

parseVars == <<field_text, parsed>>
validateVars == <<value, verdict>>
addressVars == <<addresses_file, saved>>
fileVars == <<agents_file, products_file, orders_file, export_call, edited, loaded>>
agentVars == <<app_agents, agents_dialog>>
appVars == <<table, products, last, instances, saving, agentVars>>
vars == <<parseVars, validateVars, addressVars, fileVars, appVars>>

(***************************************************************************)
(* Characters and the str methods the code uses.                          *)
(***************************************************************************)
LowerSeq == <<"a", "b", "c", "d", "e", "f", "g", "h", "i", "j", "k", "l", "m",
              "n", "o", "p", "q", "r", "s", "t", "u", "v", "w", "x", "y", "z">>
UpperSeq == <<"A", "B", "C", "D", "E", "F", "G", "H", "I", "J", "K", "L", "M",
              "N", "O", "P", "Q", "R", "S", "T", "U", "V", "W", "X", "Y", "Z">>
Lower == {LowerSeq[i] : i \in 1..Len(LowerSeq)}
Upper == {UpperSeq[i] : i \in 1..Len(UpperSeq)}
Digits == {"0", "1", "2", "3", "4", "5", "6", "7", "8", "9"}
\* The characters str.isspace() holds of: str.strip(), str.split() and \s take
\* them for whitespace. A character outside printable ASCII other than
\* "\t", "\n", "\f" and "\r" is written by its code point, "\\uXXXX".
Whitespace ==
    {" ", "\t", "\n", "\r", "\f", "\\u000b", "\\u001c", "\\u001d", "\\u001e", "\\u001f",
     "\\u0085", "\\u00a0", "\\u1680", "\\u2000", "\\u2001", "\\u2002", "\\u2003", "\\u2004",
     "\\u2005", "\\u2006", "\\u2007", "\\u2008", "\\u2009", "\\u200a", "\\u2028", "\\u2029",
     "\\u202f", "\\u205f", "\\u3000"}
\* The whitespace int() and float() ignore around a number.
NumberSpace == Whitespace \ {"\\u001c", "\\u001d", "\\u001e", "\\u001f"}

UpperMap == [c \in Lower |-> UpperSeq[CHOOSE i \in 1..Len(LowerSeq) : LowerSeq[i] = c]]

\* str.upper()
UpperStr(s) == [i \in 1..Len(s) |-> IF s[i] \in Lower THEN UpperMap[s[i]] ELSE s[i]]

\* The value of one decimal digit.
DigitVal(c) ==
    CASE c = "0" -> 0 [] c = "1" -> 1 [] c = "2" -> 2 [] c = "3" -> 3
      [] c = "4" -> 4 [] c = "5" -> 5 [] c = "6" -> 6 [] c = "7" -> 7
      [] c = "8" -> 8 [] c = "9" -> 9

\* str.isdigit(): non-empty and every character a digit.
IsDigitStr(s) == Len(s) > 0 /\ \A i \in 1..Len(s) : s[i] \in Digits

RECURSIVE DigitsVal(_)
\* The number a string of decimal digits denotes.
DigitsVal(s) ==
    IF Len(s) = 0 THEN 0
    ELSE 10 * DigitsVal(SubSeq(s, 1, Len(s) - 1)) + DigitVal(s[Len(s)])

\* The length of the longest prefix of s, from position i on, made of characters of cs.
RECURSIVE Span(_, _, _)
Span(s, i, cs) ==
    IF i <= Len(s) /\ s[i] \in cs THEN 1 + Span(s, i + 1, cs) ELSE 0

\* str.lstrip(chars) for a set of characters.
LStrip(s, cs) == SubSeq(s, Span(s, 1, cs) + 1, Len(s))

RECURSIVE RSpan(_, _, _)
RSpan(s, i, cs) ==
    IF i >= 1 /\ s[i] \in cs THEN 1 + RSpan(s, i - 1, cs) ELSE 0

\* str.rstrip(chars) for a set of characters.
RStrip(s, cs) == SubSeq(s, 1, Len(s) - RSpan(s, Len(s), cs))

\* str.strip(): leading and trailing whitespace removed.
Strip(s) == RStrip(LStrip(s, Whitespace), Whitespace)

\* The pieces of s[lo..hi] between the characters of seps, computed by
\* halving the range: the last piece of the left half and the first piece of
\* the right half are one piece.
RECURSIVE SplitRange(_, _, _, _)
SplitRange(s, lo, hi, seps) ==
    IF lo > hi THEN <<<<>>>>
    ELSE IF lo = hi THEN (IF s[lo] \in seps THEN <<<<>>, <<>>>> ELSE <<<<s[lo]>>>>)
    ELSE LET mid == (lo + hi) \div 2
             left == SplitRange(s, lo, mid, seps)
             right == SplitRange(s, mid + 1, hi, seps)
         IN SubSeq(left, 1, Len(left) - 1) \o <<left[Len(left)] \o right[1]>> \o Tail(right)

\* The pieces of s between the characters of seps (re.split on a character
\* class, str.split(sep)): always at least one piece, empty pieces kept.
SplitOn(s, seps) == SplitRange(s, 1, Len(s), seps)

\* str.split() with no argument: the maximal runs of non-whitespace.
RECURSIVE SplitWs(_)
SplitWs(s) ==
    LET t == LStrip(s, Whitespace)
        n == Span(t, 1, {c \in {t[i] : i \in 1..Len(t)} : c \notin Whitespace})
    IN IF Len(t) = 0 THEN <<>>
       ELSE <<SubSeq(t, 1, n)>> \o SplitWs(SubSeq(t, n + 1, Len(t)))

\* The concatenation of the sequences ss[lo..hi], computed by halving the range.
RECURSIVE ConcatRange(_, _, _)
ConcatRange(ss, lo, hi) ==
    IF lo > hi THEN <<>>
    ELSE IF lo = hi THEN ss[lo]
    ELSE ConcatRange(ss, lo, (lo + hi) \div 2) \o ConcatRange(ss, (lo + hi) \div 2 + 1, hi)

\* "".join(ss)
Concat(ss) == ConcatRange(ss, 1, Len(ss))

(***************************************************************************)
(* utils/parsers.py                                                        *)
(***************************************************************************)
NotCalled == [raised |-> "NotCalled"]

\* A call that returned v, and a call that raised the exception e.
Returned(v) == [raised |-> "", value |-> v]
Raised(e) == [raised |-> e]

\* int(s) for s made of '-' signs and digits: one optional sign, then digits.
IntOf(s) ==
    IF Len(s) > 0 /\ s[1] = "-"
    THEN (IF IsDigitStr(Tail(s)) THEN Returned(0 - DigitsVal(Tail(s))) ELSE Raised("ValueError"))
    ELSE (IF IsDigitStr(s) THEN Returned(DigitsVal(s)) ELSE Raised("ValueError"))

Alnum == Lower \cup Upper \cup Digits

\* PRODUCT_PATTERN.match(item): ([A-Za-z0-9]+)\s*(?:[:xX]?\s*(-?\d+))?
\* anchored at the start of item. The code group is the longest alphanumeric
\* prefix, the first \s* takes all the whitespace after it, and the optional
\* group is entered only when a quantity follows; otherwise it is skipped with
\* the code group unchanged. No match when item does not start alphanumeric.
PatternMatch(item) ==
    LET n == Span(item, 1, Alnum)
        w == Span(item, n + 1, Whitespace)
        p == n + w + 1
        sep == IF p <= Len(item) /\ item[p] \in {":", "x", "X"} THEN 1 ELSE 0
        w2 == Span(item, p + sep, Whitespace)
        q == p + sep + w2
        sign == IF q <= Len(item) /\ item[q] = "-" THEN 1 ELSE 0
        d == Span(item, q + sign, Digits)
    IN IF n = 0 THEN [matched |-> FALSE]
       ELSE [matched |-> TRUE,
             group1 |-> SubSeq(item, 1, n),
             group2 |-> IF d > 0 THEN SubSeq(item, q, q + sign + d - 1) ELSE <<>>]

\* The exception int(tokens[1]) raises in the fallback branch is not caught.
ParseItem(item) ==
    LET m == PatternMatch(item)
        tokens == SplitWs(item)
    IN IF ~m.matched
       THEN IF Len(tokens) = 2 /\ IsDigitStr(LStrip(tokens[2], {"-"}))
            THEN (IF IntOf(tokens[2]).raised = ""
                  THEN Returned([code |-> UpperStr(tokens[1]), qty |-> IntOf(tokens[2]).value])
                  ELSE IntOf(tokens[2]))
            ELSE Returned([code |-> UpperStr(item), qty |-> 1])
       ELSE Returned([code |-> UpperStr(m.group1),
                      qty |-> IF Len(m.group2) > 0 THEN IntOf(m.group2).value ELSE 1])

\* The loop over the items: blank items are skipped, the first exception ends the call.
RECURSIVE ParseItems(_, _)
ParseItems(items, acc) ==
    IF Len(items) = 0 THEN Returned(acc)
    ELSE LET item == Strip(Head(items))
         IN IF Len(item) = 0 THEN ParseItems(Tail(items), acc)
            ELSE IF ParseItem(item).raised # "" THEN ParseItem(item)
            ELSE ParseItems(Tail(items), Append(acc, ParseItem(item).value))

parse_product_field(text) ==
    IF Len(text) = 0 \/ Len(Strip(text)) = 0 THEN Returned(<<>>)
    ELSE ParseItems(SplitOn(text, {";", ","}), <<>>)

(***************************************************************************)
(* validators (validate_phone, validate_address, validate_delivery_fee)    *)
(***************************************************************************)
\* An argument that is a str, and the argument None.
Str(s) == [none |-> FALSE, text |-> s]
None == [none |-> TRUE, text |-> <<>>]

\* s without the characters of cs (a chain of str.replace(c, "")).
Remove(s, cs) == SelectSeq(s, LAMBDA c : c \notin cs)

\* [p.strip() for p in phone.split("/") if p.strip()]
StripNonBlank(ps) ==
    SelectSeq([i \in 1..Len(ps) |-> Strip(ps[i])], LAMBDA p : Len(p) > 0)

\* A (flag, message) pair; a message that quotes a phone part carries it.
Verdict(flag, text, part) == [flag |-> flag, message |-> [text |-> text, part |-> part]]

PhoneMinDigits == 8
PhoneMaxDigits == 15

\* PhoneDigits with the international prefix not handled.
PhoneDigits_KeepPlus(part) == Remove(part, {" ", "-", "(", ")"})

\* The digits of one phone part: spaces, dashes and parentheses removed,
\* then one leading '+' dropped.
PhoneDigits(part) ==
    LET cleaned == Remove(part, {" ", "-", "(", ")"})
    IN IF Len(cleaned) > 0 /\ cleaned[1] = "+" THEN Tail(cleaned) ELSE cleaned

\* The loop over the parts: the first failing part decides.
RECURSIVE CheckParts(_)
CheckParts(parts) ==
    IF Len(parts) = 0 THEN Verdict(TRUE, "OK", <<>>)
    ELSE LET digits == PhoneDigits(Head(parts))
         IN IF ~IsDigitStr(digits)
            THEN Verdict(FALSE, "Phone '{part}' contains invalid characters", Head(parts))
            ELSE IF Len(digits) < PhoneMinDigits \/ Len(digits) > PhoneMaxDigits
            THEN Verdict(FALSE, "Phone '{part}' length must be 8-15 digits", Head(parts))
            ELSE CheckParts(Tail(parts))

validate_phone(phone) ==
    IF phone.none \/ Len(phone.text) = 0
    THEN Returned(Verdict(FALSE, "Empty phone field", <<>>))
    ELSE LET parts == StripNonBlank(SplitOn(phone.text, {"/"}))
         IN IF Len(parts) = 0
            THEN Returned(Verdict(FALSE, "Empty phone field", <<>>))
            ELSE Returned(CheckParts(parts))

\* validate_address with the blank check on the untrimmed text only.
validate_address_NoStrip(address) ==
    IF address.none \/ Len(address.text) = 0
    THEN Returned(Verdict(FALSE, "Address cannot be empty", <<>>))
    ELSE Returned(Verdict(TRUE, "OK", <<>>))

validate_address(address) ==
    IF address.none \/ Len(address.text) = 0 \/ Len(Strip(address.text)) = 0
    THEN Returned(Verdict(FALSE, "Address cannot be empty", <<>>))
    ELSE Returned(Verdict(TRUE, "OK", <<>>))

LowerMap == [c \in Upper |-> LowerSeq[CHOOSE i \in 1..Len(UpperSeq) : UpperSeq[i] = c]]
\* str.lower()
LowerStr(s) == [i \in 1..Len(s) |-> IF s[i] \in Upper THEN LowerMap[s[i]] ELSE s[i]]

\* A digit part of a float literal: digits, with single underscores allowed
\* between digits.
IsDigitPart(s) ==
    /\ Len(s) > 0
    /\ \A i \in 1..Len(s) : s[i] \in Digits \cup {"_"}
    /\ s[1] # "_" /\ s[Len(s)] # "_"
    /\ \A i \in 1..(Len(s) - 1) : ~(s[i] = "_" /\ s[i + 1] = "_")

\* A float: not-a-number, an infinity, or the finite number
\* (-1)^neg * mant / 10^scale, mant being kept as its decimal digits without
\* leading zeros (empty for zero); kept as written, not rounded to binary.
NaN == [kind |-> "nan", neg |-> FALSE, mant |-> <<>>, scale |-> 0]
Inf(neg) == [kind |-> "inf", neg |-> neg, mant |-> <<>>, scale |-> 0]
Num(neg, mant, scale) == [kind |-> "num", neg |-> neg, mant |-> mant, scale |-> scale]

\* f < 0 on floats: false for nan and for both zeros.
FloatLt0(f) == f.neg /\ (f.kind = "inf" \/ (f.kind = "num" /\ Len(f.mant) > 0))

\* The position of the first character of s that is in cs, or Len(s) + 1.
FirstIn(s, cs) == 1 + Span(s, 1, {c \in {s[i] : i \in 1..Len(s)} : c \notin cs})

\* float(text) for a str: surrounding whitespace is ignored, then an optional
\* sign, then nan, inf or infinity in any letter case, or a decimal literal
\* with an optional fraction and an optional exponent.
FloatOf(text) ==
    LET t == RStrip(LStrip(text, NumberSpace), NumberSpace)
        signed == Len(t) > 0 /\ t[1] \in {"+", "-"}
        neg == Len(t) > 0 /\ t[1] = "-"
        body == IF signed THEN Tail(t) ELSE t
        e == FirstIn(body, {"e", "E"})
        mantissa == SubSeq(body, 1, e - 1)
        hasExp == e <= Len(body)
        expo == SubSeq(body, e + 1, Len(body))
        expNeg == Len(expo) > 0 /\ expo[1] = "-"
        expDigits == IF Len(expo) > 0 /\ expo[1] \in {"+", "-"} THEN Tail(expo) ELSE expo
        dot == FirstIn(mantissa, {"."})
        int == SubSeq(mantissa, 1, dot - 1)
        hasDot == dot <= Len(mantissa)
        frac == SubSeq(mantissa, dot + 1, Len(mantissa))
        fracDigits == Remove(frac, {"_"})
        expVal == IF hasExp THEN DigitsVal(Remove(expDigits, {"_"})) ELSE 0
        wellFormed ==
            /\ (Len(int) > 0 \/ Len(frac) > 0)
            /\ (Len(int) > 0 => IsDigitPart(int))
            /\ (Len(frac) > 0 => hasDot /\ IsDigitPart(frac))
            /\ (hasExp => IsDigitPart(expDigits))
    IN IF LowerStr(body) = <<"n", "a", "n">> THEN Returned(NaN)
       ELSE IF LowerStr(body) \in {<<"i", "n", "f">>,
                                   <<"i", "n", "f", "i", "n", "i", "t", "y">>}
       THEN Returned(Inf(neg))
       ELSE IF wellFormed
       THEN Returned(Num(neg, LStrip(Remove(int, {"_"}) \o fracDigits, {"0"}),
                         Len(fracDigits) - (IF expNeg THEN 0 - expVal ELSE expVal)))
       ELSE Raised("ValueError")

\* The except clause catches ValueError and TypeError; anything else propagates.
validate_delivery_fee(fee) ==
    IF fee.none \/ Len(fee.text) = 0
    THEN Returned(Verdict(FALSE, "Delivery fee is required", <<>>))
    ELSE IF FloatOf(fee.text).raised \in {"ValueError", "TypeError"}
    THEN Returned(Verdict(FALSE, "Delivery fee must be a valid number", <<>>))
    ELSE IF FloatOf(fee.text).raised # "" THEN FloatOf(fee.text)
    ELSE IF FloatLt0(FloatOf(fee.text).value)
    THEN Returned(Verdict(FALSE, "Delivery fee cannot be negative", <<>>))
    ELSE Returned(Verdict(TRUE, "OK", <<>>))

(***************************************************************************)
(* Files, and data/addresses_manager.py                                    *)
(***************************************************************************)
\* A file on disk: missing, readable with a text, or present but failing
\* every open (permissions, a directory in its place).
MissingFile == [state |-> "missing", text |-> <<>>]
TextFile(text) == [state |-> "ok", text |-> text]
UnreadableFile == [state |-> "unreadable", text |-> <<>>]

\* Reading in text mode with universal newlines: "\r\n" and "\r" become "\n".
UniversalNewlines(s) ==
    LET marked == [i \in 1..Len(s) |->
                      [char |-> IF s[i] = "\r" THEN "\n" ELSE s[i],
                       keep |-> ~(s[i] = "\n" /\ i > 1 /\ s[i - 1] = "\r")]]
        kept == SelectSeq(marked, LAMBDA m : m.keep)
    IN [i \in 1..Len(kept) |-> kept[i].char]

\* [line.strip() for line in f if line.strip()]: the lines a text file
\* iterates over are the pieces between "\n", the piece after the last "\n"
\* being a line when it is not empty.
ReadStrippedLines(file) == StripNonBlank(SplitOn(UniversalNewlines(file.text), {"\n"}))

\* A missing file gives [], and so does an open or a read that raises.
load_addresses(file) ==
    IF file.state = "missing" THEN <<>>
    ELSE IF file.state = "unreadable" THEN <<>>
    ELSE ReadStrippedLines(file)

MAX_ADDRESS_HISTORY == 200

Contains(xs, x) == \E i \in 1..Len(xs) : xs[i] = x

\* list.remove(x) for an x in xs: the first occurrence of x removed.
RemoveFirst(xs, x) ==
    LET first == CHOOSE i \in 1..Len(xs) : xs[i] = x /\ \A j \in 1..(i - 1) : xs[j] # x
    IN SubSeq(xs, 1, first - 1) \o SubSeq(xs, first + 1, Len(xs))

\* xs[:n]
Take(xs, n) == SubSeq(xs, 1, IF Len(xs) < n THEN Len(xs) ELSE n)

\* f.write(f"{addr}\n") for each entry.
WriteLines(xs) == Concat([i \in 1..Len(xs) |-> xs[i] \o <<"\n">>])

\* The file after save_address(address), the writes succeeding: a blank
\* argument leaves it alone, any other puts the trimmed address first.
save_address(file, address) ==
    LET a == Strip(address)
        addresses == load_addresses(file)
        deduped == IF Contains(addresses, a) THEN RemoveFirst(addresses, a) ELSE addresses
    IN IF Len(address) = 0 \/ Len(a) = 0 THEN file
       ELSE TextFile(WriteLines(Take(<<a>> \o deduped, MAX_ADDRESS_HISTORY)))

(***************************************************************************)
(* The parser applied to every field text of a bounded length.            *)
(***************************************************************************)
MaxFieldLen == 5
FieldTexts ==
    LET FieldChars == {"a", "x", "X", "2", "-", ":", " ", ",", ";", "#"}
    IN UNION {[1..n -> FieldChars] : n \in 0..MaxFieldLen}

ParseIdle == field_text = <<>> /\ parsed = NotCalled
AddressIdle == addresses_file = MissingFile /\ saved = <<>>
ValidateIdle == value = None /\ verdict = [fn |-> "", outcome |-> NotCalled]
NoExport == [orders |-> <<>>, outcome |-> NotCalled]
NoEdit == [written |-> FALSE, header |-> <<>>, rows |-> <<>>]
NoLoad == [fn |-> "", file |-> MissingFile, outcome |-> NotCalled]
FilesIdle ==
    /\ agents_file = MissingFile /\ products_file = MissingFile /\ orders_file = MissingFile
    /\ export_call = NoExport /\ edited = NoEdit /\ loaded = NoLoad
\* Config.DEFAULT_AGENTS
DEFAULT_AGENTS == <<<<"J", "e", "a", "n">>, <<"H", "e", "r", "y">>, <<"M", "a", "m", "y">>, <<"R", "a", "d", "o">>, <<"E", "x", "t", "e", "r", "n", "a", "l", " ", "C", "o", "u", "r", "i", "e", "r">>>>

\* The agents dialog is not open.
NoDialog == [open |-> FALSE, agents |-> <<>>, listbox |-> <<>>]

\* No table row, an empty catalog, nothing run, no instance saving an
\* address, no Save CSV under way, the default agents, no dialog.
AppIdle ==
    /\ table = <<>>
    /\ products = [type |-> "dict", keys |-> <<>>, vals |-> <<>>]
    /\ last = [op |-> "", n |-> 0]
    /\ instances = <<>>
    /\ saving = [phase |-> "idle"]
    /\ app_agents = DEFAULT_AGENTS
    /\ agents_dialog = NoDialog

ParseInit ==
    /\ AppIdle
    /\ field_text \in FieldTexts
    /\ parsed = NotCalled
    /\ ValidateIdle
    /\ AddressIdle
    /\ FilesIdle

CallParse ==
    /\ parsed = NotCalled
    /\ parsed' = parse_product_field(field_text)
    /\ UNCHANGED <<appVars, field_text, validateVars, addressVars, fileVars>>

ParseNext == CallParse

SpecParse == ParseInit /\ [][ParseNext]_vars

\* The tokens of the argument: its pieces between ',' and ';', each trimmed.
Tokens == [k \in 1..Len(SplitOn(field_text, {";", ","})) |->
              Strip(SplitOn(field_text, {";", ","})[k])]
NonBlankToken(k) == Len(Tokens[k]) > 0
\* The position, among the non-blank tokens, of token k.
Rank(k) == Cardinality({j \in 1..k : NonBlankToken(j)})

\* rest is a separator (x, X or ':' with optional whitespace around it, or
\* whitespace alone) followed by an integer written as an optional '-' and digits.
IsSepQty(rest) ==
    LET w1 == Span(rest, 1, Whitespace)
        sep == IF w1 + 1 <= Len(rest) /\ rest[w1 + 1] \in {":", "x", "X"} THEN 1 ELSE 0
        w2 == Span(rest, w1 + sep + 1, Whitespace)
        num == SubSeq(rest, w1 + sep + w2 + 1, Len(rest))
    IN /\ w1 + sep > 0
       /\ IsDigitStr(LStrip(num, {"-"}))
       /\ Len(num) - Len(LStrip(num, {"-"})) <= 1
QtyOfSepQty(rest) ==
    LET w1 == Span(rest, 1, Whitespace)
        sep == IF w1 + 1 <= Len(rest) /\ rest[w1 + 1] \in {":", "x", "X"} THEN 1 ELSE 0
        w2 == Span(rest, w1 + sep + 1, Whitespace)
    IN IntOf(SubSeq(rest, w1 + sep + w2 + 1, Len(rest))).value

\* C3: every token that is an alphanumeric code, optionally followed by a
\* separator and a signed integer, yields the upper-cased code with that
\* integer as quantity, or with quantity 1 when it carries no quantity.
C3_TokenYieldsCodeAndQty ==
    parsed # NotCalled =>
        \A k \in 1..Len(Tokens) : \A c \in 1..Len(Tokens[k]) :
            LET code == SubSeq(Tokens[k], 1, c)
                rest == SubSeq(Tokens[k], c + 1, Len(Tokens[k]))
            IN (/\ \A i \in 1..c : code[i] \in Alnum
                /\ (Len(rest) = 0 \/ IsSepQty(rest)))
               => /\ parsed.raised = ""
                  /\ Len(parsed.value) >= Rank(k)
                  /\ parsed.value[Rank(k)] =
                        [code |-> UpperStr(code),
                         qty |-> IF Len(rest) = 0 THEN 1 ELSE QtyOfSepQty(rest)]

\* C4: the result has exactly one entry per non-blank token, in the tokens'
\* order: the entry that token yields on its own, duplicates and negative
\* quantities included; a blank argument gives the empty list.
C4_OneEntryPerToken ==
    parsed # NotCalled =>
        /\ parsed.raised = ""
        /\ Len(parsed.value) = Cardinality({k \in 1..Len(Tokens) : NonBlankToken(k)})
        /\ \A k \in 1..Len(Tokens) :
              NonBlankToken(k) =>
                  /\ parse_product_field(Tokens[k]).raised = ""
                  /\ parsed.value[Rank(k)] = parse_product_field(Tokens[k]).value[1]

\* C5: the call never propagates an error: it returns a list for every argument.
C5_NeverRaises == parsed # NotCalled => parsed.raised = ""

\* What holds of C3 and C4 on the calls that return (diagnostics).
C4_WhenReturned == (parsed # NotCalled /\ parsed.raised = "") => C4_OneEntryPerToken
C3_WhenCodeIsMaximal ==
    (parsed # NotCalled /\ parsed.raised = "") =>
        \A k \in 1..Len(Tokens) : \A c \in 1..Len(Tokens[k]) :
            LET code == SubSeq(Tokens[k], 1, c)
                rest == SubSeq(Tokens[k], c + 1, Len(Tokens[k]))
            IN (/\ \A i \in 1..c : code[i] \in Alnum
                /\ (Len(rest) = 0 \/ (IsSepQty(rest) /\ rest[1] \notin Alnum)))
               => /\ Len(parsed.value) >= Rank(k)
                  /\ parsed.value[Rank(k)] =
                        [code |-> UpperStr(code),
                         qty |-> IF Len(rest) = 0 THEN 1 ELSE QtyOfSepQty(rest)]

(***************************************************************************)
(* The validators applied to short texts, to phone texts built from parts *)
(* around the digit limits, and to None.                                   *)
(***************************************************************************)
MaxTextLen == 4
MaxPhoneParts == 2
ShortTexts ==
    LET ValueChars == {"1", "0", "-", ".", "n", "a", " ", "+", "/"}
    IN UNION {[1..n -> ValueChars] : n \in 0..MaxTextLen}
FeeTexts ==
    {<<"3", "0", "0", "0">>, <<"4", "0", "0", "0">>, <<"i", "n", "f">>,
     <<"-", "i", "n", "f">>, <<"N", "a", "N">>, <<"1", "e", "2">>,
     <<"-", "1", "e", "-", "2">>, <<"1", "_", "0">>, <<"\t", "1", "2", "\n">>,
     <<"a", "b", "c">>, <<"0", "x", "1", "0">>}

\* A run of n digits.
DigitRun(n) == [i \in 1..n |-> CHOOSE c \in Digits : DigitVal(c) = i % 10]
\* One part of a phone text: a prefix, n digits, and a filler after the third digit.
PhoneParts ==
    {pre \o SubSeq(DigitRun(n), 1, IF n < 3 THEN n ELSE 3) \o mid \o SubSeq(DigitRun(n), 4, n) :
        pre \in {<<>>, <<"+">>, <<" ", "(", "+">>},
        n \in {0, PhoneMinDigits - 1, PhoneMinDigits, PhoneMaxDigits, PhoneMaxDigits + 1},
        mid \in {<<>>, <<")", " ", "-">>, <<"a">>}}
\* The phone texts of at most k parts, a '/' between two parts.
RECURSIVE PhoneTextsOf(_)
PhoneTextsOf(k) ==
    IF k = 1 THEN PhoneParts
    ELSE PhoneTextsOf(k - 1) \cup
         {t \o <<"/">> \o p : t \in PhoneTextsOf(k - 1), p \in PhoneParts}
PhoneTexts == PhoneTextsOf(MaxPhoneParts)

ValidateInit ==
    /\ AppIdle
    /\ value \in {None} \cup {Str(s) : s \in ShortTexts \cup FeeTexts \cup PhoneTexts}
    /\ verdict = [fn |-> "", outcome |-> NotCalled]
    /\ ParseIdle
    /\ AddressIdle
    /\ FilesIdle

CallValidatePhone ==
    /\ verdict.fn = ""
    /\ verdict' = [fn |-> "validate_phone", outcome |-> validate_phone(value)]
    /\ UNCHANGED <<appVars, value, parseVars, addressVars, fileVars>>

CallValidateAddress ==
    /\ verdict.fn = ""
    /\ verdict' = [fn |-> "validate_address", outcome |-> validate_address(value)]
    /\ UNCHANGED <<appVars, value, parseVars, addressVars, fileVars>>

CallValidateDeliveryFee ==
    /\ verdict.fn = ""
    /\ verdict' = [fn |-> "validate_delivery_fee", outcome |-> validate_delivery_fee(value)]
    /\ UNCHANGED <<appVars, value, parseVars, addressVars, fileVars>>

ValidateNext == CallValidatePhone \/ CallValidateAddress \/ CallValidateDeliveryFee

SpecValidate == ValidateInit /\ [][ValidateNext]_vars

\* The '/'-separated parts of the argument, each trimmed.
PhonePartsOf(text) == [i \in 1..Len(SplitOn(text, {"/"})) |-> Strip(SplitOn(text, {"/"})[i])]
\* A part is well formed: without spaces, dashes and parentheses, and without
\* one leading '+', it is made of 8 to 15 digits.
PartWellFormed(part) ==
    LET c == Remove(part, {" ", "-", "(", ")"})
        ds == IF Len(c) > 0 /\ c[1] = "+" THEN SubSeq(c, 2, Len(c)) ELSE c
    IN /\ \A i \in 1..Len(ds) : ds[i] \in Digits
       /\ Len(ds) >= 8 /\ Len(ds) <= 15

\* C6: validate_phone returns valid exactly when the argument has a non-blank
\* part and every non-blank part is well formed; otherwise it returns invalid
\* and, when a part fails, the message names the first failing part.
C6_PhoneValidExactly ==
    verdict.fn = "validate_phone" =>
        LET parts == IF value.none THEN <<>> ELSE PhonePartsOf(value.text)
            nonBlank == {i \in 1..Len(parts) : Len(parts[i]) > 0}
            failing == {i \in nonBlank : ~PartWellFormed(parts[i])}
            out == verdict.outcome.value
        IN /\ verdict.outcome.raised = ""
           /\ out.flag <=> (nonBlank # {} /\ failing = {})
           /\ failing # {} =>
                 out.message.part = parts[CHOOSE i \in failing : \A j \in failing : i <= j]

\* A phone text of two non-blank parts whose second part is the first to fail,
\* and a valid phone text of two parts, have been validated.
C6_Witness ==
    /\ verdict.fn = "validate_phone"
    /\ ~value.none
    /\ Len(PhonePartsOf(value.text)) = 2
    /\ PartWellFormed(PhonePartsOf(value.text)[1])
    /\ Len(PhonePartsOf(value.text)[2]) > 0
    /\ ~PartWellFormed(PhonePartsOf(value.text)[2])
    /\ ~verdict.outcome.value.flag

\* C7: each validator returns a (flag, message) pair without raising, for
\* every str and for None; the flag is true exactly when the message is "OK";
\* validate_address is true exactly when the argument is non-empty after trimming.
C7_ValidatorsReturnPairs ==
    verdict.fn # "" =>
        /\ verdict.outcome.raised = ""
        /\ verdict.outcome.value.flag \in BOOLEAN
        /\ verdict.outcome.value.flag <=> (verdict.outcome.value.message.text = "OK")
        /\ verdict.fn = "validate_address" =>
              (verdict.outcome.value.flag <=>
                  (~value.none /\ \E i \in 1..Len(value.text) : value.text[i] \notin Whitespace))

\* validate_delivery_fee has rejected a text that float() refuses.
C7_Witness ==
    /\ verdict.fn = "validate_delivery_fee"
    /\ ~value.none /\ Len(value.text) > 0
    /\ FloatOf(value.text).raised = "ValueError"
    /\ verdict.outcome.raised = ""
    /\ ~verdict.outcome.value.flag

\* f >= 0 on floats: false for nan.
FloatGe0(f) == (f.kind = "inf" /\ ~f.neg) \/ (f.kind = "num" /\ (~f.neg \/ Len(f.mant) = 0))

\* C8: validate_delivery_fee returns valid exactly when the argument is
\* non-empty and parses as a number greater than or equal to zero.
C8_FeeValidExactly ==
    verdict.fn = "validate_delivery_fee" =>
        /\ verdict.outcome.raised = ""
        /\ verdict.outcome.value.flag <=>
              /\ ~value.none /\ Len(value.text) > 0
              /\ FloatOf(value.text).raised = ""
              /\ FloatGe0(FloatOf(value.text).value)

\* What holds of C8 on the texts that do not spell nan (diagnostics).
C8_ExceptNaN ==
    (verdict.fn = "validate_delivery_fee" /\ FloatOf(value.text) # Returned(NaN))
        => C8_FeeValidExactly

(***************************************************************************)
(* The address history under save_address calls.                          *)
(***************************************************************************)
MaxSaves == 3

RECURSIVE DigitsOf(_)
\* The decimal digits of a natural number (str(n)).
DigitsOf(n) ==
    IF n < 10 THEN <<CHOOSE c \in Digits : DigitVal(c) = n>>
    ELSE DigitsOf(n \div 10) \o <<CHOOSE c \in Digits : DigitVal(c) = n % 10>>

\* The addresses file after the calls save_address("1"), save_address("2"),
\* ... save_address(str(n)) from an empty history: the numbers n down to 1,
\* one to a line.
NumberedFile(n) ==
    IF n = 0 THEN MissingFile
    ELSE TextFile(WriteLines([i \in 1..n |-> DigitsOf(n + 1 - i)]))

AddressArgs ==
    {<<"a">>, <<"b">>, <<" ", "a", " ">>, <<" ">>, <<"2">>, <<"a", "\n", "b">>}

\* The history is empty, or it holds the addresses of earlier calls up to one
\* below the maximum; at most MaxSaves calls follow.
AddressInit ==
    /\ AppIdle
    /\ saved \in {<<>>, [i \in 1..(MAX_ADDRESS_HISTORY - 1) |-> DigitsOf(i)]}
    /\ addresses_file = NumberedFile(Len(saved))
    /\ ParseIdle
    /\ ValidateIdle
    /\ FilesIdle

SaveAddress(address) ==
    /\ Len(saved) \notin {MaxSaves, MAX_ADDRESS_HISTORY - 1 + MaxSaves}
    /\ addresses_file' = save_address(addresses_file, address)
    /\ saved' = Append(saved, address)
    /\ UNCHANGED <<appVars, parseVars, validateVars, fileVars>>

AddressNext == \E address \in AddressArgs : SaveAddress(address)

SpecAddresses == AddressInit /\ [][AddressNext]_vars

\* The trimmed non-blank addresses of a sequence of calls, newest first,
\* each kept at its most recent position only.
MostRecentFirst(calls) ==
    LET n == Len(calls)
        newestFirst == [i \in 1..n |->
                           [address |-> Strip(calls[n + 1 - i]), call |-> n + 1 - i]]
        kept == SelectSeq(newestFirst,
                    LAMBDA e : /\ Len(e.address) > 0
                               /\ \A j \in (e.call + 1)..n : Strip(calls[j]) # e.address)
    IN [i \in 1..Len(kept) |-> kept[i].address]

\* C1: after any sequence of save_address calls from an empty history,
\* load_addresses returns the trimmed non-blank addresses saved, none twice,
\* most recently saved first, and at most 200 of them.
C1_HistoryMostRecentFirst ==
    load_addresses(addresses_file) = Take(MostRecentFirst(saved), MAX_ADDRESS_HISTORY)

\* What holds of C1 when no saved address holds a line break (diagnostics).
C1_WithoutLineBreaks ==
    (\A i \in 1..Len(saved) : \A j \in 1..Len(saved[i]) : saved[i][j] \notin {"\n", "\r"})
        => C1_HistoryMostRecentFirst

(***************************************************************************)
(* Python values, as csv and json produce and consume them.               *)
(***************************************************************************)
PyNone == [type |-> "None"]
PyBool(b) == [type |-> "bool", bool |-> b]
PyInt(n) == [type |-> "int", int |-> n]
PyFloat(f) == [type |-> "float", float |-> f]
PyStr(s) == [type |-> "str", text |-> s]
PyList(items) == [type |-> "list", items |-> items]
\* A dict: its keys in insertion order, and the value of each.
PyDict(keys, vals) == [type |-> "dict", keys |-> keys, vals |-> vals]

\* k in d
DictHas(d, k) == \E i \in 1..Len(d.keys) : d.keys[i] = k
\* d[k], for a key of d
DictGet(d, k) == d.vals[CHOOSE i \in 1..Len(d.keys) : d.keys[i] = k]
\* d[k] = v
DictSet(d, k, v) ==
    IF DictHas(d, k)
    THEN PyDict(d.keys, [i \in 1..Len(d.keys) |-> IF d.keys[i] = k THEN v ELSE d.vals[i]])
    ELSE PyDict(Append(d.keys, k), Append(d.vals, v))

\* bool(v), as an if statement takes it.
Truthy(v) ==
    CASE v.type = "None" -> FALSE
      [] v.type = "bool" -> v.bool
      [] v.type = "int" -> v.int # 0
      [] v.type = "float" -> ~(v.float.kind = "num" /\ Len(v.float.mant) = 0)
      [] v.type = "str" -> Len(v.text) > 0
      [] v.type = "list" -> Len(v.items) > 0
      [] v.type = "dict" -> Len(v.keys) > 0

(***************************************************************************)
(* Floats: comparison, the product with an int, repr.                     *)
(***************************************************************************)
\* The digits and the scale of a finite float with the trailing zeros of
\* the digits removed, which makes them unique for a value.
Canon(f) ==
    LET m == RStrip(f.mant, {"0"})
    IN [mant |-> m, scale |-> IF Len(m) = 0 THEN 0 ELSE f.scale - (Len(f.mant) - Len(m))]

\* f == g on floats: nan equals nothing, the two zeros are equal.
FloatEq(f, g) ==
    /\ f.kind # "nan" /\ g.kind # "nan"
    /\ f.kind = g.kind
    /\ \/ f.kind = "num" /\ Len(f.mant) = 0 /\ Len(g.mant) = 0
       \/ f.neg = g.neg /\ (f.kind = "inf" \/ Canon(f) = Canon(g))

\* q * f for an int q and a float f whose product is exact (f a multiple of
\* a power of two that the product does not round).
FloatMulInt(q, f) ==
    LET neg == (f.neg /\ q >= 0) \/ (~f.neg /\ q < 0)
        abs == IF q < 0 THEN 0 - q ELSE q
    IN IF f.kind = "nan" \/ (f.kind = "inf" /\ q = 0) THEN NaN
       ELSE IF f.kind = "inf" THEN Inf(neg)
       ELSE Num(neg, LStrip(DigitsOf(abs * DigitsVal(f.mant)), {"0"}), f.scale)

\* str(n) for an int.
IntStr(n) == IF n < 0 THEN <<"-">> \o DigitsOf(0 - n) ELSE DigitsOf(n)

\* repr(f) of a float of at most 15 significant digits: the shortest digits
\* that read back as f, in exponent notation below 1e-04 and from 1e+16.
FloatRepr(f) ==
    LET c == Canon(f)
        d == Len(c.mant)
        point == d - c.scale
        sign == IF f.neg THEN <<"-">> ELSE <<>>
        x == point - 1
        ex == IF x < 0 THEN 0 - x ELSE x
        Zeros(n) == [i \in 1..n |-> "0"]
        expo == <<"e", IF x < 0 THEN "-" ELSE "+">>
                    \o (IF ex < 10 THEN <<"0">> ELSE <<>>) \o DigitsOf(ex)
    IN IF f.kind = "nan" THEN <<"n", "a", "n">>
       ELSE IF f.kind = "inf" THEN sign \o <<"i", "n", "f">>
       ELSE IF d = 0 THEN sign \o <<"0", ".", "0">>
       ELSE IF x < -4 \/ x >= 16
       THEN sign \o <<c.mant[1]>> \o (IF d > 1 THEN <<".">> \o Tail(c.mant) ELSE <<>>) \o expo
       ELSE IF point <= 0 THEN sign \o <<"0", ".">> \o Zeros(0 - point) \o c.mant
       ELSE IF point >= d THEN sign \o c.mant \o Zeros(point - d) \o <<".", "0">>
       ELSE sign \o SubSeq(c.mant, 1, point) \o <<".">> \o SubSeq(c.mant, point + 1, d)

(***************************************************************************)
(* Characters by code point: the printable ASCII characters are           *)
(* themselves, "\t", "\n", "\f" and "\r" too, and the character of any    *)
(* other code point below 0x10000 is written "\\uXXXX" (one element); so  *)
(* is the backquote, U+0060, which a string here cannot hold. A character *)
(* from 0x10000 on is kept as its two surrogates.                          *)
(***************************************************************************)
\* The characters U+0020 to U+005F, and U+0061 to U+007E.
AsciiLow == <<" ", "!", "\"", "#", "$", "%", "&", "'", "(", ")", "*", "+", ",", "-", ".", "/", "0", "1", "2", "3", "4", "5", "6", "7", "8", "9", ":", ";", "<", "=", ">", "?", "@", "A", "B", "C", "D", "E", "F", "G", "H", "I", "J", "K", "L", "M", "N", "O", "P", "Q", "R", "S", "T", "U", "V", "W", "X", "Y", "Z", "[", "\\", "]", "^", "_">>
AsciiHigh == <<"a", "b", "c", "d", "e", "f", "g", "h", "i", "j", "k", "l", "m", "n", "o", "p", "q", "r", "s", "t", "u", "v", "w", "x", "y", "z", "{", "|", "}", "~">>
PrintableSet == {AsciiLow[i] : i \in 1..Len(AsciiLow)}
                    \cup {AsciiHigh[i] : i \in 1..Len(AsciiHigh)} \cup {"\\u0060"}

HexSeq == <<"0", "1", "2", "3", "4", "5", "6", "7", "8", "9", "a", "b", "c", "d", "e", "f">>
HexVal(c) ==
    IF c \in Digits THEN DigitVal(c)
    ELSE (CHOOSE i \in 11..16 : HexSeq[i] = (IF c \in Upper THEN LowerMap[c] ELSE c)) - 1

\* The character with code point n < 0x10000.
CharOfCode(n) ==
    CASE n = 9 -> "\t" [] n = 10 -> "\n" [] n = 12 -> "\f" [] n = 13 -> "\r"
      [] n >= 32 /\ n <= 95 -> AsciiLow[n - 31]
      [] n >= 97 /\ n <= 126 -> AsciiHigh[n - 96]
      [] OTHER -> "\\u" \o HexSeq[(n \div 4096) + 1] \o HexSeq[((n \div 256) % 16) + 1]
                        \o HexSeq[((n \div 16) % 16) + 1] \o HexSeq[(n % 16) + 1]

\* The four hexadecimal digits of the code point of a character that is not
\* printable ASCII.
HexOfChar(c) ==
    CASE c = "\t" -> <<"0", "0", "0", "9">> [] c = "\n" -> <<"0", "0", "0", "a">>
      [] c = "\f" -> <<"0", "0", "0", "c">> [] c = "\r" -> <<"0", "0", "0", "d">>
      [] OTHER ->
            LET h == CHOOSE g \in [1..4 -> 1..16] :
                         c = "\\u" \o HexSeq[g[1]] \o HexSeq[g[2]] \o HexSeq[g[3]] \o HexSeq[g[4]]
            IN [i \in 1..4 |-> HexSeq[h[i]]]
(***************************************************************************)
(* json.dumps and json.loads                                               *)
(***************************************************************************)
\* One character of a str inside a JSON string (ensure_ascii): the quote
\* and the backslash are escaped, and so is every character outside
\* ' ' .. '~'.
JsonEscape(c) ==
    CASE c = "\"" -> <<"\\", "\"">>
      [] c = "\\" -> <<"\\", "\\">>
      [] c = "\n" -> <<"\\", "n">>
      [] c = "\r" -> <<"\\", "r">>
      [] c = "\t" -> <<"\\", "t">>
      [] c = "\f" -> <<"\\", "f">>
      [] c = "\\u0008" -> <<"\\", "b">>
      [] c \in PrintableSet -> <<c>>
      [] OTHER -> <<"\\", "u">> \o HexOfChar(c)

JsonStr(s) == <<"\"">> \o Concat([i \in 1..Len(s) |-> JsonEscape(s[i])]) \o <<"\"">>

\* ", ".join(ss)
JoinCommaSpace(ss) ==
    Concat([i \in 1..Len(ss) |-> IF i = 1 THEN ss[i] ELSE <<",", " ">> \o ss[i]])

RECURSIVE JsonDumps(_)
\* json.dumps(v) with the default separators; a float is written by
\* float.__repr__, nan and the infinities by the names json gives them.
JsonDumps(v) ==
    CASE v.type = "None" -> <<"n", "u", "l", "l">>
      [] v.type = "bool" -> (IF v.bool THEN <<"t", "r", "u", "e">> ELSE <<"f", "a", "l", "s", "e">>)
      [] v.type = "int" -> IntStr(v.int)
      [] v.type = "float" ->
            IF v.float.kind = "nan" THEN <<"N", "a", "N">>
            ELSE IF v.float.kind = "inf"
            THEN (IF v.float.neg THEN <<"-", "I", "n", "f", "i", "n", "i", "t", "y">> ELSE <<"I", "n", "f", "i", "n", "i", "t", "y">>)
            ELSE FloatRepr(v.float)
      [] v.type = "str" -> JsonStr(v.text)
      [] v.type = "list" ->
            <<"[">> \o JoinCommaSpace([i \in 1..Len(v.items) |-> JsonDumps(v.items[i])])
                \o <<"]">>
      [] v.type = "dict" ->
            <<"{">> \o JoinCommaSpace([i \in 1..Len(v.keys) |->
                            JsonStr(v.keys[i].text) \o <<":", " ">> \o JsonDumps(v.vals[i])])
                \o <<"}">>

\* The result of scanning a value: the value and the position after it, or
\* a failure, which json.loads raises as JSONDecodeError.
JOk(v, end) == [ok |-> TRUE, value |-> v, end |-> end]
JFail == [ok |-> FALSE, value |-> PyNone, end |-> 0]

\* The position of the first character from i on that is not whitespace.
SkipWs(s, i) == i + Span(s, i, {" ", "\t", "\n", "\r"})

\* s[i:i+len(word)] == word
StartsWith(s, i, word) ==
    i + Len(word) - 1 <= Len(s) /\ SubSeq(s, i, i + Len(word) - 1) = word

RECURSIVE ScanString(_, _, _)
\* scanstring, strict: the characters from position i up to the closing
\* quote, acc being those read so far. A character below U+0020 is refused.
ScanString(s, i, acc) ==
    LET control ==
            s[i] \notin PrintableSet /\ HexOfChar(s[i])[1] = "0" /\ HexOfChar(s[i])[2] = "0"
                /\ HexOfChar(s[i])[3] \in {"0", "1"}
        hex == Digits \cup {"a", "b", "c", "d", "e", "f", "A", "B", "C", "D", "E", "F"}
    IN
    IF i > Len(s) THEN JFail
    ELSE IF s[i] = "\"" THEN JOk(PyStr(acc), i + 1)
    ELSE IF s[i] # "\\"
    THEN (IF control THEN JFail ELSE ScanString(s, i + 1, Append(acc, s[i])))
    ELSE IF i + 1 > Len(s) THEN JFail
    ELSE IF s[i + 1] = "u"
    THEN (IF i + 5 <= Len(s) /\ \A k \in (i + 2)..(i + 5) : s[k] \in hex
          THEN ScanString(s, i + 6,
                   Append(acc, CharOfCode(4096 * HexVal(s[i + 2]) + 256 * HexVal(s[i + 3])
                                              + 16 * HexVal(s[i + 4]) + HexVal(s[i + 5]))))
          ELSE JFail)
    ELSE IF s[i + 1] \in {"\"", "\\", "/"} THEN ScanString(s, i + 2, Append(acc, s[i + 1]))
    ELSE IF s[i + 1] = "b" THEN ScanString(s, i + 2, Append(acc, "\\u0008"))
    ELSE IF s[i + 1] = "f" THEN ScanString(s, i + 2, Append(acc, "\f"))
    ELSE IF s[i + 1] = "n" THEN ScanString(s, i + 2, Append(acc, "\n"))
    ELSE IF s[i + 1] = "r" THEN ScanString(s, i + 2, Append(acc, "\r"))
    ELSE IF s[i + 1] = "t" THEN ScanString(s, i + 2, Append(acc, "\t"))
    ELSE JFail

\* A number at position i: -?(0|[1-9]\d*)(\.\d+)?([eE][-+]?\d+)?, an int
\* without fraction and exponent and a float with one; then the constants
\* NaN, Infinity and -Infinity.
ScanNumber(s, i) ==
    LET d == IF i <= Len(s) /\ s[i] = "-" THEN i + 1 ELSE i
        intEnd == IF d <= Len(s) /\ s[d] = "0" THEN d + 1 ELSE d + Span(s, d, Digits)
        fracLen == IF intEnd <= Len(s) /\ s[intEnd] = "." THEN Span(s, intEnd + 1, Digits) ELSE 0
        fracEnd == IF fracLen > 0 THEN intEnd + 1 + fracLen ELSE intEnd
        expSign == IF fracEnd + 1 <= Len(s) /\ s[fracEnd + 1] \in {"+", "-"} THEN 1 ELSE 0
        expLen == IF fracEnd <= Len(s) /\ s[fracEnd] \in {"e", "E"}
                  THEN Span(s, fracEnd + 1 + expSign, Digits) ELSE 0
        end == IF expLen > 0 THEN fracEnd + 1 + expSign + expLen ELSE fracEnd
    IN IF intEnd > d
       THEN (IF end > intEnd
             THEN JOk(PyFloat(FloatOf(SubSeq(s, i, end - 1)).value), end)
             ELSE JOk(PyInt(IntOf(SubSeq(s, i, end - 1)).value), end))
       ELSE IF StartsWith(s, i, <<"N", "a", "N">>) THEN JOk(PyFloat(NaN), i + 3)
       ELSE IF StartsWith(s, i, <<"I", "n", "f", "i", "n", "i", "t", "y">>) THEN JOk(PyFloat(Inf(FALSE)), i + 8)
       ELSE IF StartsWith(s, i, <<"-", "I", "n", "f", "i", "n", "i", "t", "y">>) THEN JOk(PyFloat(Inf(TRUE)), i + 9)
       ELSE JFail

RECURSIVE ScanValue(_, _)
RECURSIVE ScanArray(_, _, _)
RECURSIVE ScanObject(_, _, _)

\* scan_once: the value that starts at position i.
ScanValue(s, i) ==
    IF i > Len(s) THEN JFail
    ELSE IF s[i] = "\"" THEN ScanString(s, i + 1, <<>>)
    ELSE IF s[i] = "{"
    THEN (LET j == SkipWs(s, i + 1)
          IN IF j > Len(s) THEN JFail
             ELSE IF s[j] = "}" THEN JOk(PyDict(<<>>, <<>>), j + 1)
             ELSE IF s[j] # "\"" THEN JFail
             ELSE ScanObject(s, j, PyDict(<<>>, <<>>)))
    ELSE IF s[i] = "["
    THEN (LET j == SkipWs(s, i + 1)
          IN IF j <= Len(s) /\ s[j] = "]" THEN JOk(PyList(<<>>), j + 1)
             ELSE ScanArray(s, j, <<>>))
    ELSE IF StartsWith(s, i, <<"n", "u", "l", "l">>) THEN JOk(PyNone, i + 4)
    ELSE IF StartsWith(s, i, <<"t", "r", "u", "e">>) THEN JOk(PyBool(TRUE), i + 4)
    ELSE IF StartsWith(s, i, <<"f", "a", "l", "s", "e">>) THEN JOk(PyBool(FALSE), i + 5)
    ELSE ScanNumber(s, i)

\* The items of an array from position i on, acc being those read so far.
ScanArray(s, i, acc) ==
    LET v == ScanValue(s, i)
        j == SkipWs(s, v.end)
    IN IF ~v.ok \/ j > Len(s) THEN JFail
       ELSE IF s[j] = "]" THEN JOk(PyList(Append(acc, v.value)), j + 1)
       ELSE IF s[j] = "," THEN ScanArray(s, SkipWs(s, j + 1), Append(acc, v.value))
       ELSE JFail

\* The pairs of an object from the opening quote of a key at position i on.
ScanObject(s, i, acc) ==
    LET k == ScanString(s, i + 1, <<>>)
        colon == SkipWs(s, k.end)
        v == ScanValue(s, SkipWs(s, colon + 1))
        j == SkipWs(s, v.end)
        next == SkipWs(s, j + 1)
    IN IF ~k.ok \/ colon > Len(s) THEN JFail
       ELSE IF s[colon] # ":" THEN JFail
       ELSE IF ~v.ok \/ j > Len(s) THEN JFail
       ELSE IF s[j] = "}" THEN JOk(DictSet(acc, k.value, v.value), j + 1)
       ELSE IF s[j] # "," \/ next > Len(s) THEN JFail
       ELSE IF s[next] # "\"" THEN JFail
       ELSE ScanObject(s, next, DictSet(acc, k.value, v.value))

\* json.loads(s) for a str: one value, whitespace allowed around it. The
\* nesting is far below the interpreter's recursion limit and the numbers
\* are short.
JsonLoads(s) ==
    LET Decoded(v) ==
            IF ~v.ok THEN Raised("JSONDecodeError")
            ELSE IF SkipWs(s, v.end) <= Len(s) THEN Raised("JSONDecodeError")
            ELSE Returned(v.value)
    IN IF Len(s) > 0 /\ s[1] = "\\ufeff" THEN Raised("JSONDecodeError")
       ELSE Decoded(ScanValue(s, SkipWs(s, 1)))
(***************************************************************************)
(* csv.writer and csv.reader with the default (excel) dialect              *)
(***************************************************************************)
\* WriteField with the quotes inside a quoted field left single.
WriteField_QuotesLeftSingle(text, alone) ==
    IF (\E i \in 1..Len(text) : text[i] \in {",", "\"", "\r", "\n"}) \/ (alone /\ Len(text) = 0)
    THEN <<"\"">> \o text \o <<"\"">>
    ELSE text

\* One field as written: quoted when it holds the delimiter, the quote or a
\* character of the line terminator, an empty field when it is alone in its
\* row; a quote inside is doubled.
WriteField(text, alone) ==
    IF (\E i \in 1..Len(text) : text[i] \in {",", "\"", "\r", "\n"}) \/ (alone /\ Len(text) = 0)
    THEN <<"\"">>
            \o Concat([i \in 1..Len(text) |->
                          IF text[i] = "\"" THEN <<"\"", "\"">> ELSE <<text[i]>>])
            \o <<"\"">>
    ELSE text

\* writer.writerow(cells): the fields joined by commas, then "\r\n". A cell
\* is written as its str, None as the empty string.
WriteRow(cells) ==
    LET CellText(v) ==
            CASE v.type = "None" -> <<>>
              [] v.type = "str" -> v.text
              [] v.type = "int" -> IntStr(v.int)
              [] v.type = "float" -> FloatRepr(v.float)
    IN
    Concat([i \in 1..Len(cells) |->
               (IF i = 1 THEN <<>> ELSE <<",">>)
                   \o WriteField(CellText(cells[i]), Len(cells) = 1)])
        \o <<"\r", "\n">>

\* The longest field the reader accepts (csv.field_size_limit()).
FieldSizeLimit == 131072

\* parse_add_char
AddChar(st, c) ==
    IF Len(st.field) >= FieldSizeLimit THEN [st EXCEPT !.state = "ERROR"]
    ELSE [st EXCEPT !.field = Append(@, c)]

\* parse_save_field, and the state that follows.
SaveField(st, state) ==
    [st EXCEPT !.fields = Append(@, st.field), !.field = <<>>, !.state = state]

\* parse_process_char for a character c of a line.
ProcessChar(st, c) ==
    CASE st.state \in {"START_RECORD", "START_FIELD"} ->
            IF c \in {"\n", "\r"}
            THEN (IF st.state = "START_RECORD" THEN [st EXCEPT !.state = "EAT_CRNL"]
                  ELSE SaveField(st, "EAT_CRNL"))
            ELSE IF c = "\"" THEN [st EXCEPT !.state = "IN_QUOTED_FIELD"]
            ELSE IF c = "," THEN SaveField(st, "START_FIELD")
            ELSE AddChar([st EXCEPT !.state = "IN_FIELD"], c)
      [] st.state = "IN_FIELD" ->
            IF c \in {"\n", "\r"} THEN SaveField(st, "EAT_CRNL")
            ELSE IF c = "," THEN SaveField(st, "START_FIELD")
            ELSE AddChar(st, c)
      [] st.state = "IN_QUOTED_FIELD" ->
            IF c = "\"" THEN [st EXCEPT !.state = "QUOTE_IN_QUOTED_FIELD"]
            ELSE AddChar(st, c)
      [] st.state = "QUOTE_IN_QUOTED_FIELD" ->
            IF c = "\"" THEN AddChar([st EXCEPT !.state = "IN_QUOTED_FIELD"], c)
            ELSE IF c = "," THEN SaveField(st, "START_FIELD")
            ELSE IF c \in {"\n", "\r"} THEN SaveField(st, "EAT_CRNL")
            ELSE AddChar([st EXCEPT !.state = "IN_FIELD"], c)
      [] st.state = "EAT_CRNL" ->
            IF c \in {"\n", "\r"} THEN st ELSE [st EXCEPT !.state = "ERROR"]
      [] st.state = "ERROR" -> st

\* parse_process_char for the end of a line, and the row handed out when the
\* line has ended a record.
ProcessEol(st) ==
    LET after ==
            CASE st.state \in {"START_FIELD", "IN_FIELD", "QUOTE_IN_QUOTED_FIELD"} ->
                    SaveField(st, "START_RECORD")
              [] st.state = "EAT_CRNL" -> [st EXCEPT !.state = "START_RECORD"]
              [] OTHER -> st
    IN IF after.state = "START_RECORD"
       THEN [after EXCEPT !.fields = <<>>, !.rows = Append(@, after.fields)]
       ELSE after

\* The characters a reader takes in one stretch.
ReaderStretch == 32

RECURSIVE ReadStretch(_, _, _, _)
\* The reader after the characters s[lo..hi]; a line ends after each "\n".
ReadStretch(s, st, lo, hi) ==
    IF lo > hi THEN st
    ELSE LET after == IF s[lo] = "\n" THEN ProcessEol(ProcessChar(st, s[lo]))
                      ELSE ProcessChar(st, s[lo])
         IN IF after.state = "ERROR" THEN after ELSE ReadStretch(s, after, lo + 1, hi)

RECURSIVE ReadFrom(_, _, _)
\* The reader after the characters of s from position lo on.
ReadFrom(s, st, lo) ==
    IF lo > Len(s) THEN st
    ELSE LET hi == IF lo + ReaderStretch - 1 < Len(s) THEN lo + ReaderStretch - 1 ELSE Len(s)
             after == ReadStretch(s, st, lo, hi)
         IN IF after.state = "ERROR" THEN after ELSE ReadFrom(s, after, hi + 1)

\* list(csv.reader(f)) for a file of this text, opened in text mode: the rows,
\* each a list of str, or csv.Error. A last line without "\n" ends like the
\* others; a quoted field still open at the end of the file is closed there.
ReadRows(text) ==
    LET start == [state |-> "START_RECORD", field |-> <<>>, fields |-> <<>>, rows |-> <<>>]
        Rows(ended) ==
            IF ended.state = "ERROR" THEN Raised("csv.Error")
            ELSE IF ended.state = "IN_QUOTED_FIELD"
            THEN Returned(Append(ended.rows, Append(ended.fields, ended.field)))
            ELSE Returned(ended.rows)
        Ended(s, read) ==
            Rows(IF Len(s) > 0 /\ s[Len(s)] # "\n" /\ read.state # "ERROR"
                 THEN ProcessEol(read) ELSE read)
        Read(s) == Ended(s, ReadFrom(s, start, 1))
    IN Read(UniversalNewlines(text))

RECURSIVE ZipDict(_, _, _)
\* dict(zip(keys, cells)) for the first n pairs: a later pair with the same
\* key replaces the earlier value.
ZipDict(keys, cells, n) ==
    IF n = 0 THEN PyDict(<<>>, <<>>)
    ELSE DictSet(ZipDict(keys, cells, n - 1), PyStr(keys[n]), PyStr(cells[n]))

RECURSIVE SetNone(_, _, _, _)
\* d[key] = None for the keys lo..hi.
SetNone(d, keys, lo, hi) ==
    IF lo > hi THEN d ELSE SetNone(DictSet(d, PyStr(keys[lo]), PyNone), keys, lo + 1, hi)

\* The dict csv.DictReader makes of a row: cells beyond the field names go
\* under the key None, field names beyond the cells get None.
RowDict(names, row) ==
    LET lf == Len(names)
        lr == Len(row)
        d == ZipDict(names, row, IF lf < lr THEN lf ELSE lr)
    IN IF lf < lr
       THEN DictSet(d, PyNone, PyList([i \in 1..(lr - lf) |-> PyStr(row[lf + i])]))
       ELSE SetNone(d, names, lr + 1, lf)

\* list(csv.DictReader(f)) for the rows of a file: the first row gives the
\* field names, empty rows after it are skipped.
DictRows(rows) ==
    IF Len(rows) = 0 THEN <<>>
    ELSE LET records == SelectSeq(Tail(rows), LAMBDA r : Len(r) > 0)
         IN [i \in 1..Len(records) |-> RowDict(rows[1], records[i])]
(***************************************************************************)
(* models/order.py and data/csv_handler.py                                 *)
(***************************************************************************)
\* OrderLine(product_code, quantity, unit_price); __post_init__ sets line_total.
OrderLine(product_code, quantity, unit_price) ==
    [product_code |-> product_code, quantity |-> quantity, unit_price |-> unit_price,
     line_total |-> FloatMulInt(quantity, unit_price)]

\* Order.to_dict
to_dict(order) ==
    PyDict(<<PyStr(<<"C", "l", "i", "e", "n", "t", " ", "N", "a", "m", "e">>), PyStr(<<"P", "h", "o", "n", "e">>), PyStr(<<"A", "d", "d", "r", "e", "s", "s">>),
             PyStr(<<"D", "e", "l", "i", "v", "e", "r", "y", " ", "F", "e", "e">>), PyStr(<<"P", "r", "o", "d", "u", "c", "t", "(", "s", ")">>), PyStr(<<"T", "o", "t", "a", "l", " ", "P", "r", "i", "c", "e">>),
             PyStr(<<"S", "t", "a", "t", "u", "s">>), PyStr(<<"A", "g", "e", "n", "t">>), PyStr(<<"N", "o", "t", "e", "s">>)>>,
           <<PyStr(order.client_name), PyStr(order.phone), PyStr(order.address),
             PyFloat(order.delivery_fee), PyStr(order.products), PyFloat(order.total_price),
             PyStr(order.status), PyStr(order.agent), PyStr(order.notes)>>)

\* The columns of the orders file.
fieldnames ==
    <<<<"C", "l", "i", "e", "n", "t", " ", "N", "a", "m", "e">>, <<"P", "h", "o", "n", "e">>, <<"A", "d", "d", "r", "e", "s", "s">>, <<"D", "e", "l", "i", "v", "e", "r", "y", " ", "F", "e", "e">>, <<"P", "r", "o", "d", "u", "c", "t", "(", "s", ")">>,
      <<"T", "o", "t", "a", "l", " ", "P", "r", "i", "c", "e">>, <<"S", "t", "a", "t", "u", "s">>, <<"A", "g", "e", "n", "t">>, <<"N", "o", "t", "e", "s">>, <<"O", "r", "d", "e", "r", "L", "i", "n", "e", "s", "J", "S", "O", "N">>>>

\* The list of dicts export_orders serializes for the lines of an order.
order_lines_data(order) ==
    PyList([i \in 1..Len(order.order_lines) |->
               PyDict(<<PyStr(<<"p", "r", "o", "d", "u", "c", "t", "_", "c", "o", "d", "e">>), PyStr(<<"q", "u", "a", "n", "t", "i", "t", "y">>),
                        PyStr(<<"u", "n", "i", "t", "_", "p", "r", "i", "c", "e">>), PyStr(<<"l", "i", "n", "e", "_", "t", "o", "t", "a", "l">>)>>,
                      <<PyStr(order.order_lines[i].product_code),
                        PyInt(order.order_lines[i].quantity),
                        PyFloat(order.order_lines[i].unit_price),
                        PyFloat(order.order_lines[i].line_total)>>)])

\* The row export_orders hands to the writer for an order.
ExportRow(order) ==
    DictSet(to_dict(order), PyStr(<<"O", "r", "d", "e", "r", "L", "i", "n", "e", "s", "J", "S", "O", "N">>),
            IF Len(order.order_lines) > 0 THEN PyStr(JsonDumps(order_lines_data(order)))
            ELSE PyStr(<<>>))

\* DictWriter.writerow and writeheader: the cells in the order of the field
\* names, the empty string for a column the row lacks.
WriteDictRow(row) ==
    WriteRow([i \in 1..Len(fieldnames) |->
                 IF DictHas(row, PyStr(fieldnames[i])) THEN DictGet(row, PyStr(fieldnames[i]))
                 ELSE PyStr(<<>>)])

\* The text export_orders writes: the header, then one row for each order.
ExportText(orders) ==
    WriteRow([i \in 1..Len(fieldnames) |-> PyStr(fieldnames[i])])
        \o Concat([i \in 1..Len(orders) |-> WriteDictRow(ExportRow(orders[i]))])

\* export_orders(orders, path): the file afterwards and the outcome of the
\* call. A path that cannot be opened for writing raises, after a print.
export_orders(file, orders) ==
    IF file.state = "unreadable" THEN [file |-> file, outcome |-> Raised("OSError")]
    ELSE [file |-> TextFile(ExportText(orders)), outcome |-> Returned(PyNone)]

\* ImportRow without the except clause's empty list: the cell is kept.
ImportRow_CellKept(row) ==
    LET key == PyStr(<<"O", "r", "d", "e", "r", "L", "i", "n", "e", "s", "J", "S", "O", "N">>)
        Lines(decoded) ==
            IF decoded.raised = "JSONDecodeError" THEN DictGet(row, key) ELSE decoded.value
    IN DictSet(row, PyStr(<<"o", "r", "d", "e", "r", "_", "l", "i", "n", "e", "s">>),
               IF DictHas(row, key) /\ Truthy(DictGet(row, key))
               THEN Lines(JsonLoads(DictGet(row, key).text))
               ELSE PyList(<<>>))

\* The loop body of import_orders: the row with its order_lines entry.
ImportRow(row) ==
    LET key == PyStr(<<"O", "r", "d", "e", "r", "L", "i", "n", "e", "s", "J", "S", "O", "N">>)
        Lines(decoded) ==
            IF decoded.raised = "JSONDecodeError" THEN PyList(<<>>) ELSE decoded.value
    IN DictSet(row, PyStr(<<"o", "r", "d", "e", "r", "_", "l", "i", "n", "e", "s">>),
               IF DictHas(row, key) /\ Truthy(DictGet(row, key))
               THEN Lines(JsonLoads(DictGet(row, key).text))
               ELSE PyList(<<>>))

\* import_orders(path): a missing file and any error of the open or of the
\* csv reader are printed and raised again.
import_orders(file) ==
    LET Orders(rows) == Returned([i \in 1..Len(rows) |-> ImportRow(rows[i])])
        Read(read) == IF read.raised # "" THEN read ELSE Orders(DictRows(read.value))
    IN IF file.state = "missing" THEN Raised("FileNotFoundError")
       ELSE IF file.state = "unreadable" THEN Raised("OSError")
       ELSE Read(ReadRows(file.text))
(***************************************************************************)
(* data/agents_manager.py (load_agents) and data/products_loader.py        *)
(***************************************************************************)
\* load_agents with the empty list for a missing file.
load_agents_EmptyWhenMissing(file) ==
    IF file.state = "missing" THEN <<>>
    ELSE IF file.state = "unreadable" THEN DEFAULT_AGENTS
    ELSE IF Len(ReadStrippedLines(file)) = 0 THEN DEFAULT_AGENTS
    ELSE ReadStrippedLines(file)

\* A missing file gives the default agents, and so do an open or a read that
\* raises and a file without a non-blank line.
load_agents(file) ==
    IF file.state = "missing" THEN DEFAULT_AGENTS
    ELSE IF file.state = "unreadable" THEN DEFAULT_AGENTS
    ELSE IF Len(ReadStrippedLines(file)) = 0 THEN DEFAULT_AGENTS
    ELSE ReadStrippedLines(file)

SAMPLE_PRODUCTS ==
    <<<<<<"C", "A">>, <<"C", "r", "e", "m", "e", " ", "A", "f", "f", "i", "n", "a", "n", "t", "e">>, <<"2", "5", "0", "0", "0">>, <<"u", "n", "i", "t">>>>,
      <<<<"T", "A">>, <<"T", "i", "s", "a", "n", "e", " ", "A", "f", "f", "i", "n", "a", "n", "t", "e">>, <<"2", "5", "0", "0", "0">>, <<"u", "n", "i", "t">>>>,
      <<<<"C", "G">>, <<"C", "r", "e", "m", "e", " ", "G", "a", "l", "b", "a", "n", "t", "e">>, <<"2", "5", "0", "0", "0">>, <<"u", "n", "i", "t">>>>,
      <<<<"S", "G">>, <<"S", "A", "V", "O", "N", " ", "G", "A", "L", "B", "A", "N", "T">>, <<"1", "5", "0", "0", "0">>, <<"u", "n", "i", "t">>>>,
      <<<<"B", "S">>, <<"B", "a", "s", "e", " ", "d", "e", " ", "S", "a", "v", "o", "n">>, <<"5", "0">>, <<"g">>>>,
      <<<<"G">>, <<"G", "a", "i", "n", "e">>, <<"1", "0", "0", "0", "0">>, <<"u", "n", "i", "t">>>>>>

\* The rows csv.writer writes for lists of str.
WriteStrRows(rows) ==
    Concat([i \in 1..Len(rows) |-> WriteRow([j \in 1..Len(rows[i]) |-> PyStr(rows[i][j])])])

\* The catalog after save_products_example(): the sample catalog when the
\* write succeeds, the file as it was when it fails (the error is printed).
save_products_example(file, writable) ==
    IF writable /\ file.state # "unreadable"
    THEN TextFile(WriteStrRows(<<<<<<"C", "o", "d", "e">>, <<"N", "a", "m", "e">>, <<"P", "r", "i", "c", "e">>, <<"U", "n", "i", "t">>>>>> \o SAMPLE_PRODUCTS))
    ELSE file

RECURSIVE ProductsOf(_, _)
\* The loop of load_products over the first n data rows: a row of fewer than
\* three cells, or whose third cell float() rejects, adds nothing.
ProductsOf(rows, n) ==
    IF n = 0 THEN PyDict(<<>>, <<>>)
    ELSE LET before == ProductsOf(rows, n - 1)
             row == rows[n]
             price == FloatOf(Strip(row[3]))
         IN IF Len(row) < 3 THEN before
            ELSE IF price.raised # "" THEN before
            ELSE DictSet(before, PyStr(UpperStr(Strip(row[1]))), PyFloat(price.value))

\* load_products without the test for a header: the first row is a data row.
load_products_NoHeader(file, writable) ==
    LET has_header(first_row) ==
            FALSE
        Products(data_rows) == ProductsOf(data_rows, Len(data_rows))
        Rows(rows) ==
            IF Len(rows) = 0 THEN PyDict(<<>>, <<>>)
            ELSE Products(IF has_header(rows[1]) THEN Tail(rows) ELSE rows)
        Read(read) == IF read.raised # "" THEN PyDict(<<>>, <<>>) ELSE Rows(read.value)
        Load(catalog) ==
            [file |-> catalog,
             outcome |-> Returned(IF catalog.state # "ok" THEN PyDict(<<>>, <<>>)
                                  ELSE Read(ReadRows(catalog.text)))]
    IN Load(IF file.state = "missing" THEN save_products_example(file, writable) ELSE file)

\* load_products(): the catalog file afterwards and the mapping returned. A
\* missing catalog is first written with the samples, writable telling
\* whether that write succeeds; a catalog that cannot be opened or read
\* gives the empty mapping.
load_products(file, writable) ==
    LET has_header(first_row) ==
            Len(first_row) > 0 /\ LowerStr(first_row[1]) \in {<<"c", "o", "d", "e">>, <<"p", "r", "o", "d", "u", "c", "t">>, <<"s", "k", "u">>}
        Products(data_rows) == ProductsOf(data_rows, Len(data_rows))
        Rows(rows) ==
            IF Len(rows) = 0 THEN PyDict(<<>>, <<>>)
            ELSE Products(IF has_header(rows[1]) THEN Tail(rows) ELSE rows)
        Read(read) == IF read.raised # "" THEN PyDict(<<>>, <<>>) ELSE Rows(read.value)
        Load(catalog) ==
            [file |-> catalog,
             outcome |-> Returned(IF catalog.state # "ok" THEN PyDict(<<>>, <<>>)
                                  ELSE Read(ReadRows(catalog.text)))]
    IN Load(IF file.state = "missing" THEN save_products_example(file, writable) ELSE file)
(***************************************************************************)
(* The orders file under exports, edits by hand and imports.               *)
(***************************************************************************)
MaxOrders == 2
MaxLines == 2
MaxRows == 2

\* Order lines: a plain one, then product codes that need quoting in the
\* CSV cell and escaping in the JSON text, a negative and a zero quantity,
\* and the prices float() can give: a fraction, nan and an infinity.
SomeLines ==
    <<OrderLine(<<"C", "A">>, 2, Num(FALSE, <<"2", "5", "0", "0", "0">>, 0)),
      OrderLine(<<"T", "\"", "A", ",">>, 1, Num(FALSE, <<"5">>, 1)),
      OrderLine(<<"\\", "\n", "\\u00e9">>, 0 - 3, NaN),
      OrderLine(<<>>, 0, Inf(FALSE))>>

\* n lines, taken in turn from the k-th on.
LinesFrom(k, n) == [i \in 1..n |-> SomeLines[((k + i - 2) % Len(SomeLines)) + 1]]

\* An order as the table gives it, and one whose texts hold the delimiter,
\* quotes and line breaks.
PlainOrder(lines) ==
    [client_name |-> <<"A", "n", "n">>, phone |-> <<"0", "3", "4", "1", "2", "3", "4", "5", "6", "7">>, address |-> <<"L", "o", "t", " ", "5">>,
     delivery_fee |-> Num(FALSE, <<"3", "0", "0", "0">>, 0), products |-> <<"C", "A", " ", "x", " ", "2">>,
     total_price |-> Num(FALSE, <<"5", "3", "0", "0", "0">>, 0), status |-> <<"P", "e", "n", "d", "i", "n", "g">>,
     agent |-> <<"J", "e", "a", "n">>, notes |-> <<>>, order_lines |-> lines]
AwkwardOrder(lines) ==
    [client_name |-> <<"a", ",", "\"", "b", "\"">>, phone |-> <<"+", "2", "6", "1", " ", "3", "4", "/", "0", "3", "3">>, address |-> <<"x", "\n", "y">>,
     delivery_fee |-> Num(FALSE, <<"5">>, 1), products |-> <<"T", "\"", "A", ",", " ", "x">>,
     total_price |-> NaN, status |-> <<"O", "k">>,
     agent |-> <<>>, notes |-> <<"\r">>, order_lines |-> lines]

OrderLists ==
    LET Orders == {PlainOrder(LinesFrom(1, n)) : n \in 0..MaxLines}
                      \cup {AwkwardOrder(LinesFrom(3, n)) : n \in 0..MaxLines}
    IN UNION {[1..n -> Orders] : n \in 0..MaxOrders}

\* Rows written by hand under the header Client Name, OrderLinesJSON, Notes
\* or under Client Name, Notes: the cell of the order lines is not JSON, is
\* empty, is missing with the end of its row, or is a list of one line.
MalformedCells == {<<"[">>, <<"{", "\"", "a", "\"", ":", " ", "1", ",", "}">>, <<"n", "u", "l">>}
ValidCell == <<"[", "{", "\"", "p", "r", "o", "d", "u", "c", "t", "_", "c", "o", "d", "e", "\"", ":", " ", "\"", "C", "A", "\"", ",", " ", "\"", "q", "u", "a", "n", "t", "i", "t", "y", "\"", ":", " ", "2", ",", " ", "\"", "u", "n", "i", "t", "_", "p", "r", "i", "c", "e", "\"", ":", " ", "2", "5", "0", "0", "0", ".", "0", "}", "]">>
EditedRows ==
    {<<<<"A", "n", "n">>, <<"[">>, <<"x">>>>, <<<<"B", "o", "b">>, <<"{", "\"", "a", "\"", ":", " ", "1", ",", "}">>, <<>>>>,
     <<<<"C", "y">>, <<>>, <<"y">>>>, <<<<"D", "i">>>>, <<<<"E", "d">>, ValidCell, <<>>>>,
     <<<<"F", "a", ",", " ", "j", "r">>, <<"n", "u", "l">>, <<"z">>>>}
EditedHeaders ==
    {<<<<"C", "l", "i", "e", "n", "t", " ", "N", "a", "m", "e">>, <<"O", "r", "d", "e", "r", "L", "i", "n", "e", "s", "J", "S", "O", "N">>, <<"N", "o", "t", "e", "s">>>>, <<<<"C", "l", "i", "e", "n", "t", " ", "N", "a", "m", "e">>, <<"N", "o", "t", "e", "s">>>>}
EditedRowLists == UNION {[1..n -> EditedRows] : n \in 0..MaxRows}

CsvInit ==
    /\ AppIdle
    /\ orders_file \in {MissingFile, UnreadableFile}
    /\ agents_file = MissingFile /\ products_file = MissingFile
    /\ export_call = NoExport /\ edited = NoEdit /\ loaded = NoLoad
    /\ ParseIdle
    /\ ValidateIdle
    /\ AddressIdle

\* The file has not been written yet. A write replaces the whole content, so
\* one write in a behaviour shows every content a later write can give.
Unwritten == export_call = NoExport /\ edited = NoEdit

\* Save CSV: export_orders(orders, path).
ExportOrders(orders) ==
    /\ Unwritten
    /\ orders_file' = export_orders(orders_file, orders).file
    /\ export_call' = [orders |-> orders, outcome |-> export_orders(orders_file, orders).outcome]
    /\ edited' = NoEdit
    /\ loaded' = NoLoad
    /\ UNCHANGED <<appVars, parseVars, validateVars, addressVars, agents_file, products_file>>

\* The file is written outside the program: a header and rows, as a
\* spreadsheet saves them.
EditOrdersFile(header, rows) ==
    /\ Unwritten
    /\ orders_file' = TextFile(WriteStrRows(<<header>> \o rows))
    /\ edited' = [written |-> TRUE, header |-> header, rows |-> rows]
    /\ export_call' = NoExport
    /\ loaded' = NoLoad
    /\ UNCHANGED <<appVars, parseVars, validateVars, addressVars, agents_file, products_file>>

\* Load CSV: import_orders(path).
ImportOrders ==
    /\ loaded' = [fn |-> "import_orders", file |-> orders_file,
                  outcome |-> import_orders(orders_file)]
    /\ UNCHANGED <<appVars, parseVars, validateVars, addressVars, agents_file, products_file,
                   orders_file, export_call, edited>>

CsvNext ==
    \/ \E orders \in OrderLists : ExportOrders(orders)
    \/ \E header \in EditedHeaders : \E rows \in EditedRowLists : EditOrdersFile(header, rows)
    \/ ImportOrders

SpecCsv == CsvInit /\ [][CsvNext]_vars

\* The order_lines entry of an imported record.
ImportedLines(record) == DictGet(record, PyStr(<<"o", "r", "d", "e", "r", "_", "l", "i", "n", "e", "s">>))

\* f and g are equal, or both are nan.
SameFloat(f, g) == FloatEq(f, g) \/ (f.kind = "nan" /\ g.kind = "nan")

\* An imported line is a dict that carries the product code, the quantity
\* and the unit price of the order line; nanSame tells whether a price that
\* is nan matches a price that is nan.
LineMatches(d, line, nanSame) ==
    /\ d.type = "dict"
    /\ DictHas(d, PyStr(<<"p", "r", "o", "d", "u", "c", "t", "_", "c", "o", "d", "e">>))
    /\ DictGet(d, PyStr(<<"p", "r", "o", "d", "u", "c", "t", "_", "c", "o", "d", "e">>)) = PyStr(line.product_code)
    /\ DictHas(d, PyStr(<<"q", "u", "a", "n", "t", "i", "t", "y">>))
    /\ DictGet(d, PyStr(<<"q", "u", "a", "n", "t", "i", "t", "y">>)) = PyInt(line.quantity)
    /\ DictHas(d, PyStr(<<"u", "n", "i", "t", "_", "p", "r", "i", "c", "e">>))
    /\ DictGet(d, PyStr(<<"u", "n", "i", "t", "_", "p", "r", "i", "c", "e">>)).type = "float"
    /\ IF nanSame THEN SameFloat(DictGet(d, PyStr(<<"u", "n", "i", "t", "_", "p", "r", "i", "c", "e">>)).float, line.unit_price)
       ELSE FloatEq(DictGet(d, PyStr(<<"u", "n", "i", "t", "_", "p", "r", "i", "c", "e">>)).float, line.unit_price)

\* import_orders has read the file that export_orders wrote.
ImportedTheExport ==
    /\ loaded.fn = "import_orders"
    /\ export_call.outcome = Returned(PyNone)
    /\ loaded.file = orders_file

\* The records imported are the orders exported, one for one and in order,
\* each with the lines of its order.
RoundTrip(nanSame) ==
    ImportedTheExport =>
        /\ loaded.outcome.raised = ""
        /\ Len(loaded.outcome.value) = Len(export_call.orders)
        /\ \A i \in 1..Len(export_call.orders) :
              LET lines == ImportedLines(loaded.outcome.value[i])
                  order == export_call.orders[i]
              IN /\ lines.type = "list"
                 /\ Len(lines.items) = Len(order.order_lines)
                 /\ \A j \in 1..Len(order.order_lines) :
                       LineMatches(lines.items[j], order.order_lines[j], nanSame)

\* C2 as stated: export_orders followed by import_orders returns one record
\* for each exported order, in the same order, and the order_lines of each
\* record has the length of the order's lines, with equal product_code,
\* quantity and unit_price at every position.
C2_RoundTripEqual == RoundTrip(FALSE)

\* C2, amended: the same, a unit price that is nan coming back as nan (which
\* is not equal to itself) and every other unit price coming back equal.
C2_RoundTripSame == RoundTrip(TRUE)

\* Two orders have been exported and imported: one without lines, one with
\* lines whose product codes need quoting and escaping and whose price is nan.
C2_Witness ==
    /\ ImportedTheExport
    /\ loaded.outcome.raised = ""
    /\ Len(export_call.orders) = 2
    /\ Len(export_call.orders[1].order_lines) = 0
    /\ export_call.orders[2].order_lines = LinesFrom(3, 2)
    /\ Len(ImportedLines(loaded.outcome.value[2]).items) = 2

\* import_orders has read the file that was written by hand.
ImportedTheEdit ==
    /\ loaded.fn = "import_orders"
    /\ edited.written
    /\ loaded.file = orders_file

\* The cell of row under the column OrderLinesJSON, when the header has the
\* column and the row reaches it.
HasLinesCell(header, row) ==
    \E p \in 1..Len(row) : p <= Len(header) /\ header[p] = <<"O", "r", "d", "e", "r", "L", "i", "n", "e", "s", "J", "S", "O", "N">>
LinesCell(header, row) ==
    row[CHOOSE p \in 1..Len(row) : p <= Len(header) /\ header[p] = <<"O", "r", "d", "e", "r", "L", "i", "n", "e", "s", "J", "S", "O", "N">>]

\* C9: a row whose OrderLinesJSON cell is not valid JSON does not make
\* import_orders fail: the row is returned with order_lines the empty list
\* and its other columns as read, every other row is returned, in file
\* order; a row whose cell is empty or missing gets the empty list too.
C9_MalformedJsonGivesNoLines ==
    ImportedTheEdit =>
        /\ loaded.outcome.raised = ""
        /\ Len(loaded.outcome.value) = Len(edited.rows)
        /\ \A i \in 1..Len(edited.rows) :
              LET row == edited.rows[i]
                  record == loaded.outcome.value[i]
              IN /\ \A p \in 1..Len(edited.header) :
                        /\ DictHas(record, PyStr(edited.header[p]))
                        /\ DictGet(record, PyStr(edited.header[p]))
                              = IF p <= Len(row) THEN PyStr(row[p]) ELSE PyNone
                 /\ (~HasLinesCell(edited.header, row)
                        \/ LinesCell(edited.header, row) \in MalformedCells \cup {<<>>})
                        => ImportedLines(record) = PyList(<<>>)
                 /\ (HasLinesCell(edited.header, row)
                        /\ LinesCell(edited.header, row) = ValidCell)
                        => /\ ImportedLines(record).type = "list"
                           /\ Len(ImportedLines(record).items) = 1
                           /\ LineMatches(ImportedLines(record).items[1], SomeLines[1], FALSE)

\* A file of two rows has been imported, the first with a cell that is not
\* JSON, the second with a list of one line.
C9_Witness ==
    /\ ImportedTheEdit
    /\ edited.header = <<<<"C", "l", "i", "e", "n", "t", " ", "N", "a", "m", "e">>, <<"O", "r", "d", "e", "r", "L", "i", "n", "e", "s", "J", "S", "O", "N">>, <<"N", "o", "t", "e", "s">>>>
    /\ edited.rows = <<<<<<"A", "n", "n">>, <<"[">>, <<"x">>>>, <<<<"E", "d">>, ValidCell, <<>>>>>>
    /\ loaded.outcome.raised = ""
    /\ ImportedLines(loaded.outcome.value[1]) = PyList(<<>>)
    /\ Len(ImportedLines(loaded.outcome.value[2]).items) = 1

(***************************************************************************)
(* The four flat files as the program finds them, and its reads.          *)
(***************************************************************************)
AddressFiles == {MissingFile, UnreadableFile, TextFile(<<"L", "o", "t", " ", "5", "\n">>)}
AgentFiles == {MissingFile, UnreadableFile, TextFile(<<"Z", "o", "\n">>), TextFile(<<"\n", " ", "\n">>)}
ProductFiles ==
    {MissingFile, UnreadableFile, TextFile(<<>>),
     TextFile(<<"c", "o", "d", "e", ",", "n", "a", "m", "e", ",", "p", "r", "i", "c", "e", "\n", "c", "a", ",", "x", ",", " ", "5", " ", "\n", "q", ",", "y", "\n", "z", ",", "w", ",", "a", "b", "c", "\n">>)}
OrderFiles ==
    {MissingFile, UnreadableFile, TextFile(ExportText(<<PlainOrder(LinesFrom(1, 1))>>))}

ReadsInit ==
    /\ AppIdle
    /\ addresses_file \in AddressFiles /\ saved = <<>>
    /\ agents_file \in AgentFiles
    /\ products_file \in ProductFiles
    /\ orders_file \in OrderFiles
    /\ export_call = NoExport /\ edited = NoEdit /\ loaded = NoLoad
    /\ ParseIdle
    /\ ValidateIdle

LoadAddresses ==
    /\ loaded' = [fn |-> "load_addresses", file |-> addresses_file,
                  outcome |-> Returned(load_addresses(addresses_file))]
    /\ UNCHANGED <<appVars, parseVars, validateVars, addressVars, agents_file, products_file,
                   orders_file, export_call, edited>>

LoadAgents ==
    /\ loaded' = [fn |-> "load_agents", file |-> agents_file,
                  outcome |-> Returned(load_agents(agents_file))]
    /\ UNCHANGED <<appVars, parseVars, validateVars, addressVars, agents_file, products_file,
                   orders_file, export_call, edited>>

\* load_products(), the write of the sample catalog succeeding or failing.
LoadProducts(writable) ==
    /\ products_file' = load_products(products_file, writable).file
    /\ loaded' = [fn |-> "load_products", file |-> products_file,
                  outcome |-> load_products(products_file, writable).outcome]
    /\ UNCHANGED <<appVars, parseVars, validateVars, addressVars, agents_file,
                   orders_file, export_call, edited>>

ReadsNext ==
    \/ LoadAddresses
    \/ LoadAgents
    \/ \E writable \in BOOLEAN : LoadProducts(writable)
    \/ ImportOrders

SpecReads == ReadsInit /\ [][ReadsNext]_vars

\* The read called last found its file missing or unreadable.
FailedRead == loaded.fn # "" /\ loaded.file.state \in {"missing", "unreadable"}

\* The mapping load_products returns for the sample catalog.
SampleCatalog ==
    PyDict([i \in 1..Len(SAMPLE_PRODUCTS) |-> PyStr(SAMPLE_PRODUCTS[i][1])],
           [i \in 1..Len(SAMPLE_PRODUCTS) |-> PyFloat(Num(FALSE, SAMPLE_PRODUCTS[i][3], 0))])

\* C10 as stated: every read of a missing or unreadable file returns an
\* empty or default collection instead of propagating an error: the empty
\* list for addresses, the default agents for agents, the empty mapping for
\* products, the empty list for orders.
C10_FailedReadGivesEmptyOrDefault ==
    FailedRead =>
        loaded.outcome =
            CASE loaded.fn = "load_addresses" -> Returned(<<>>)
              [] loaded.fn = "load_agents" -> Returned(DEFAULT_AGENTS)
              [] loaded.fn = "load_products" -> Returned(PyDict(<<>>, <<>>))
              [] loaded.fn = "import_orders" -> Returned(<<>>)

\* C10, amended: load_addresses, load_agents and load_products propagate no
\* error, and return the empty list, the default agents, and the empty
\* mapping, except that load_products first writes the sample catalog in
\* place of a missing file and returns its mapping when that write
\* succeeds; import_orders raises the error of the open to its caller.
C10_FailedReadGivesEmptyOrDefaultOrRaises ==
    FailedRead =>
        CASE loaded.fn = "load_addresses" -> loaded.outcome = Returned(<<>>)
          [] loaded.fn = "load_agents" -> loaded.outcome = Returned(DEFAULT_AGENTS)
          [] loaded.fn = "load_products" ->
                loaded.outcome =
                    IF loaded.file.state = "missing" /\ products_file.state = "ok"
                    THEN Returned(SampleCatalog) ELSE Returned(PyDict(<<>>, <<>>))
          [] loaded.fn = "import_orders" ->
                loaded.outcome =
                    IF loaded.file.state = "missing" THEN Raised("FileNotFoundError")
                    ELSE Raised("OSError")

\* import_orders has been called on a missing file and has raised.
C10_Witness ==
    /\ loaded.fn = "import_orders"
    /\ loaded.file = MissingFile
    /\ loaded.outcome = Raised("FileNotFoundError")
(***************************************************************************)
(* data/agents_manager.py (save_agents), and the four flat-file writes.    *)
(***************************************************************************)
\* save_agents with an except clause that raises the error again.
save_agents_Raises(file, agents) ==
    IF file.state = "unreadable" THEN [file |-> file, outcome |-> Raised("OSError")]
    ELSE [file |-> TextFile(WriteLines(StripNonBlank(agents))), outcome |-> Returned(PyNone)]

\* save_agents(agents): the file afterwards and the outcome of the call. The
\* trimmed non-blank names are written in the order given, one a line; an
\* open that fails is printed and the call returns.
save_agents(file, agents) ==
    IF file.state = "unreadable" THEN [file |-> file, outcome |-> Returned(PyNone)]
    ELSE [file |-> TextFile(WriteLines(StripNonBlank(agents))), outcome |-> Returned(PyNone)]

MaxWrites == 2

\* The lists save_agents is called with: a name twice, names to trim and a
\* blank one, no name, and one name more than the history length.
AgentLists ==
    {<<<<"J", "e", "a", "n">>, <<"Z", "o">>, <<"J", "e", "a", "n">>>>, <<<<" ", "Z", "o", " ">>, <<" ">>, <<"A", "n", "n">>>>, <<>>,
     [i \in 1..(MAX_ADDRESS_HISTORY + 1) |-> DigitsOf(i)]}

\* Each file is missing, or cannot be opened; at most MaxWrites calls of
\* save_address, save_agents and save_products_example follow.
WritesInit ==
    /\ AppIdle
    /\ addresses_file \in {MissingFile, UnreadableFile} /\ saved = <<>>
    /\ agents_file \in {MissingFile, UnreadableFile}
    /\ products_file \in {MissingFile, UnreadableFile}
    /\ orders_file \in {MissingFile, UnreadableFile}
    /\ export_call = NoExport /\ edited = NoEdit /\ loaded = NoLoad
    /\ ParseIdle
    /\ ValidateIdle

\* save_address(address): a blank address returns before the file is
\* touched; the error of a failing open is printed and the call returns.
WriteAddress(address) ==
    /\ last.n < MaxWrites
    /\ addresses_file' = IF addresses_file.state = "unreadable" THEN addresses_file
                         ELSE save_address(addresses_file, address)
    /\ last' = [op |-> "save_address", n |-> last.n + 1, file |-> addresses_file,
                failed |-> addresses_file.state = "unreadable" /\ Len(Strip(address)) > 0,
                outcome |-> Returned(PyNone)]
    /\ loaded' = NoLoad
    /\ UNCHANGED <<agentVars, table, products, instances, saving, parseVars, validateVars, saved,
                   agents_file, products_file, orders_file, export_call, edited>>

SaveAgents(agents) ==
    /\ last.n < MaxWrites
    /\ agents_file' = save_agents(agents_file, agents).file
    /\ last' = [op |-> "save_agents", n |-> last.n + 1, file |-> agents_file,
                failed |-> agents_file.state = "unreadable",
                outcome |-> save_agents(agents_file, agents).outcome]
    /\ loaded' = NoLoad
    /\ UNCHANGED <<agentVars, table, products, instances, saving, parseVars, validateVars, addressVars,
                   products_file, orders_file, export_call, edited>>

\* save_products_example(), the write succeeding or failing: the error of a
\* failing write is printed and the call returns.
SaveProductsExample(writable) ==
    /\ last.n < MaxWrites
    /\ products_file' = save_products_example(products_file, writable)
    /\ last' = [op |-> "save_products_example", n |-> last.n + 1, file |-> products_file,
                failed |-> ~(writable /\ products_file.state # "unreadable"),
                outcome |-> Returned(PyNone)]
    /\ loaded' = NoLoad
    /\ UNCHANGED <<agentVars, table, products, instances, saving, parseVars, validateVars, addressVars,
                   agents_file, orders_file, export_call, edited>>

WritesNext ==
    \/ \E address \in AddressArgs : WriteAddress(address)
    \/ \E agents \in AgentLists : SaveAgents(agents)
    \/ \E writable \in BOOLEAN : SaveProductsExample(writable)
    \/ \E orders \in {<<>>, <<PlainOrder(LinesFrom(1, 1))>>} : ExportOrders(orders)
    \/ LoadAgents

SpecWrites == WritesInit /\ [][WritesNext]_vars

\* The write called last failed: one of save_address, save_agents and
\* save_products_example, and export_orders.
FailedWrite == last.op # "" /\ last.failed
FailedExport == export_call # NoExport /\ orders_file.state = "unreadable"

NoDuplicates(xs) == \A i, j \in 1..Len(xs) : xs[i] = xs[j] => i = j

\* C14: the agents file follows the same history rules as the addresses
\* file: after any sequence of save_agents calls, load_agents returns a
\* list in which no agent name appears twice and which has at most 200
\* entries.
C14_AgentsDedupedAndCapped ==
    (last.op = "save_agents" /\ loaded.fn = "load_agents") =>
        /\ NoDuplicates(loaded.outcome.value)
        /\ Len(loaded.outcome.value) <= MAX_ADDRESS_HISTORY
(***************************************************************************)
(* Save CSV step by step: the open, the rows, the close (export_orders).   *)
(***************************************************************************)
\* Lists of up to MaxOrders orders: one as the table gives it, and one whose
\* notes hold a lone surrogate, which the utf-8 codec of the file refuses.
SavedOrderLists ==
    LET plain == PlainOrder(LinesFrom(1, 1))
        Orders == {plain, [plain EXCEPT !.notes = <<"\\ud800">>]}
    IN UNION {[1..n -> Orders] : n \in 0..MaxOrders}

\* The target is missing, cannot be opened, or holds an earlier text.
SaveInit ==
    /\ AppIdle
    /\ orders_file \in {MissingFile, UnreadableFile, TextFile(<<"o", "l", "d", "\r", "\n">>),
                        TextFile(ExportText(<<PlainOrder(<<>>)>>))}
    /\ agents_file = MissingFile /\ products_file = MissingFile
    /\ export_call = NoExport /\ edited = NoEdit /\ loaded = NoLoad
    /\ ParseIdle
    /\ ValidateIdle
    /\ AddressIdle

\* open(path, 'w'): the file is emptied, or the open raises and the file is
\* left as it was.
OpenTarget(orders) ==
    /\ saving.phase = "idle"
    /\ orders_file' = IF orders_file.state = "unreadable" THEN orders_file ELSE TextFile(<<>>)
    /\ saving' = [phase |-> IF orders_file.state = "unreadable" THEN "failed" ELSE "open",
                  before |-> orders_file, orders |-> orders, pending |-> <<>>, next |-> 0,
                  outcome |-> IF orders_file.state = "unreadable" THEN Raised("OSError")
                              ELSE NotCalled]
    /\ UNCHANGED <<agentVars, table, products, last, instances, parseVars, validateVars, addressVars,
                   agents_file, products_file, export_call, edited, loaded>>

\* writer.writeheader() and writer.writerow(row): the text of the row is
\* encoded and joins the buffer of the file; a text the codec refuses
\* raises, and leaving the with block writes the buffer to the file.
WriteNext ==
    LET Write(text) ==
            IF \E i \in 1..Len(text) : text[i] = "\\ud800"
            THEN /\ orders_file' = TextFile(saving.pending)
                 /\ saving' = [saving EXCEPT !.phase = "failed",
                                             !.outcome = Raised("UnicodeEncodeError")]
            ELSE /\ orders_file' = orders_file
                 /\ saving' = [saving EXCEPT !.pending = @ \o text, !.next = @ + 1]
    IN /\ saving.phase = "open"
       /\ saving.next <= Len(saving.orders)
       /\ Write(IF saving.next = 0 THEN WriteRow([i \in 1..Len(fieldnames) |-> PyStr(fieldnames[i])])
                ELSE WriteDictRow(ExportRow(saving.orders[saving.next])))
       /\ UNCHANGED <<agentVars, table, products, last, instances, parseVars, validateVars, addressVars,
                      agents_file, products_file, export_call, edited, loaded>>

\* The end of the with block after the last row: the buffer is written.
CloseTarget ==
    /\ saving.phase = "open"
    /\ saving.next > Len(saving.orders)
    /\ orders_file' = TextFile(saving.pending)
    /\ saving' = [saving EXCEPT !.phase = "done", !.outcome = Returned(PyNone)]
    /\ UNCHANGED <<agentVars, table, products, last, instances, parseVars, validateVars, addressVars,
                   agents_file, products_file, export_call, edited, loaded>>

\* The device fails while the file is open (a full disk, a removed volume):
\* the write of the buffer raises and the file stays as the open left it.
DeviceFails ==
    /\ saving.phase = "open"
    /\ saving' = [saving EXCEPT !.phase = "failed", !.outcome = Raised("OSError")]
    /\ UNCHANGED <<agentVars, table, products, last, instances, parseVars, validateVars, addressVars,
                   fileVars>>

SaveNext ==
    \/ \E orders \in SavedOrderLists : OpenTarget(orders)
    \/ WriteNext
    \/ CloseTarget
    \/ DeviceFails

SpecSave == SaveInit /\ [][SaveNext]_vars

\* C12: saving orders is all-or-nothing: after any Save CSV attempt,
\* including one in which export_orders fails after it has opened the target
\* file or after it has written some rows, the target file holds either the
\* header plus one line for every table row, or exactly the content it had
\* before the attempt; it never holds only part of the rows.
C12_SaveIsAllOrNothing ==
    saving.phase \in {"done", "failed"} =>
        \/ orders_file = TextFile(ExportText(saving.orders))
        \/ orders_file = saving.before

\* A Save CSV that returns leaves the text export_orders writes, and one
\* whose open fails leaves the file as it was.
SaveAgreesWithExport ==
    (saving.phase = "done" \/ (saving.phase = "failed" /\ saving.before.state = "unreadable")) =>
        /\ orders_file = export_orders(saving.before, saving.orders).file
        /\ saving.outcome = export_orders(saving.before, saving.orders).outcome
(***************************************************************************)
(* utils/formatters.py                                                     *)
(***************************************************************************)
\* An int beyond the range of the integers here, by its sign and digits.
PyBigInt(neg, digits) == [type |-> "bigint", neg |-> neg, digits |-> digits]

\* float(n) for an int n with 2**53 <= |n| < 2**54, where the floats are the
\* even numbers: an odd n goes to its neighbour that is a multiple of four.
FloatOfBigInt(neg, digits) ==
    LET d == Len(digits)
        low == DigitsVal(SubSeq(digits, d - 1, d))
        nines == d - Len(RStrip(digits, {"9"}))
        next == SubSeq(digits, 1, d - nines - 1)
                    \o DigitsOf(DigitVal(digits[d - nines]) + 1) \o [i \in 1..nines |-> "0"]
        previous == SubSeq(digits, 1, d - 1) \o DigitsOf(DigitVal(digits[d]) - 1)
    IN Num(neg, IF low % 2 = 0 THEN digits ELSE IF (low + 1) % 4 = 0 THEN next ELSE previous, 0)

\* s.replace(pair, "") for a pair of two different characters: no two
\* occurrences overlap, so every character of an occurrence goes.
RemovePair(s, pair) ==
    LET At(i) == i >= 1 /\ i < Len(s) /\ s[i] = pair[1] /\ s[i + 1] = pair[2]
        kept == {i \in 1..Len(s) : ~At(i) /\ ~At(i - 1)}
        Nth(k) == CHOOSE i \in kept : Cardinality({j \in kept : j < i}) = k - 1
    IN [k \in 1..Cardinality(kept) |-> s[Nth(k)]]

\* int(text) for a str of signs, digits, points, letters and spaces:
\* surrounding whitespace is ignored, then an optional sign, then digits.
IntLiteral(text) ==
    LET t == RStrip(LStrip(text, NumberSpace), NumberSpace)
        signed == Len(t) > 0 /\ t[1] \in {"+", "-"}
        body == IF signed THEN Tail(t) ELSE t
    IN IF IsDigitStr(body)
       THEN Returned(IF t[1] = "-" THEN 0 - DigitsVal(body) ELSE DigitsVal(body))
       ELSE Raised("ValueError")

\* f"{n:,}" without the replace: the groups are separated by commas.
GroupThousands_Commas(digits) ==
    Concat([i \in 1..Len(digits) |->
               IF i > 1 /\ (Len(digits) - i + 1) % 3 = 0 THEN <<",", digits[i]>>
               ELSE <<digits[i]>>])

\* f"{n:,}".replace(",", " ") on the digits of n: a space before every
\* digit that has a multiple of three digits from it to the end.
GroupThousands(digits) ==
    Concat([i \in 1..Len(digits) |->
               IF i > 1 /\ (Len(digits) - i + 1) % 3 = 0 THEN <<" ", digits[i]>>
               ELSE <<digits[i]>>])

\* format_currency(value) for None, an int, a float and a str. The float is
\* one whose fraction is zero or begins within four places, and has no digit
\* from 5 on in its third place (two decimals cut it, they do not round it).
format_currency(amount) ==
    LET Zeros(n) == [i \in 1..n |-> "0"]
        Whole(f) ==
            IF f.scale <= 0 THEN f.mant \o Zeros(0 - f.scale)
            ELSE SubSeq(f.mant, 1, Len(f.mant) - f.scale)
        Fraction(f) ==
            IF f.scale <= 0 THEN <<>>
            ELSE IF f.scale >= Len(f.mant) THEN Zeros(f.scale - Len(f.mant)) \o f.mant
            ELSE SubSeq(f.mant, Len(f.mant) - f.scale + 1, Len(f.mant))
        Digits0(ds) == IF Len(ds) = 0 THEN <<"0">> ELSE ds
        \* abs(v_abs - round(v_abs)) < 0.0001
        IsWhole(f) == \A i \in 1..Len(Fraction(f)) : i <= 4 => Fraction(f)[i] = "0"
        TwoDecimals(f) == SubSeq(Fraction(f) \o <<"0", "0">>, 1, 2)
        Formatted(v) ==
            IF IsWhole(v) THEN GroupThousands(Digits0(Whole(v)))
            ELSE GroupThousands(Digits0(Whole(v))) \o <<".">> \o TwoDecimals(v)
        Format(v) ==
            IF v.kind = "nan" THEN Raised("ValueError")
            ELSE IF v.kind = "inf" THEN Raised("OverflowError")
            ELSE Returned(PyStr((IF FloatLt0(v) THEN <<"-">> ELSE <<>>)
                                    \o Formatted(v) \o <<" ", "A", "r">>))
        Text(converted) ==
            IF converted.raised # "" THEN Returned(amount) ELSE Format(converted.value)
    IN CASE amount.type = "None" -> Returned(PyStr(<<>>))
         [] amount.type = "int" ->
                Format(Num(amount.int < 0,
                           LStrip(DigitsOf(IF amount.int < 0 THEN 0 - amount.int ELSE amount.int),
                                  {"0"}), 0))
         [] amount.type = "bigint" -> Format(FloatOfBigInt(amount.neg, amount.digits))
         [] amount.type = "float" -> Format(amount.float)
         [] amount.type = "str" -> Text(FloatOf(amount.text))

\* parse_numeric(value_str, allow_negative) for None, an int, a float and a
\* str.
parse_numeric(value_str, allow_negative) ==
    LET Checked(v, negative) ==
            IF ~allow_negative /\ negative THEN Returned(PyNone) ELSE Returned(v)
        AsInt(n) == IF n.raised # "" THEN Returned(PyNone)
                  ELSE Checked(PyInt(n.value), n.value < 0)
        AsFloat(f) == IF f.raised # "" THEN Returned(PyNone)
                    ELSE Checked(PyFloat(f.value), FloatLt0(f.value))
        Parse(cleaned) ==
            IF Len(cleaned) = 0 THEN Returned(PyNone)
            ELSE IF \E i \in 1..Len(cleaned) : cleaned[i] = "."
            THEN AsFloat(FloatOf(cleaned))
            ELSE AsInt(IntLiteral(cleaned))
        Clean(s) ==
            Remove(RemovePair(RemovePair(Remove(Strip(s), {" "}), <<"A", "r">>), <<"a", "r">>), {","})
    IN CASE value_str.type = "None" -> Returned(PyNone)
         [] value_str.type = "int" -> Parse(Clean(IntStr(value_str.int)))
         [] value_str.type = "float" -> Parse(Clean(FloatRepr(value_str.float)))
         [] value_str.type = "str" -> Parse(Clean(value_str.text))
(***************************************************************************)
(* The formatters applied to None, to ints, to floats and to every text   *)
(* of a bounded length over a digit, the separators, a sign, a point and  *)
(* the letters of the suffix.                                              *)
(***************************************************************************)
MaxAmountLen == 3
Amounts ==
    LET AmountChars == {"1", " ", ",", "-", ".", "A", "a", "R", "r"}
        Ints == {0, 1, -1, 12, 999, 1000, -1000, 25000, 1234567, -999999, 2147483647}
        Floats == {Num(TRUE, <<"1", "0", "0", "0", "5">>, 1), Num(FALSE, <<"5">>, 1), Num(TRUE, <<>>, 0), NaN}
        Texts == {<<"n", "a", "n">>, <<"-", "i", "n", "f">>, <<"a", "b", "c">>, <<"2", "5", "0", "0", "0", " ", "A", "R">>, <<"2", "5", " ", "0", "0", "0", " ", "A", "r">>, <<"-", "1", " ", "0", "0", "0", " ", "a", "r">>,
                  <<" ", "1", "5", "0", "0", " ">>}
    IN {PyNone, PyBigInt(FALSE, <<"9", "0", "0", "7", "1", "9", "9", "2", "5", "4", "7", "4", "0", "9", "9", "2">>), PyBigInt(FALSE, <<"9", "0", "0", "7", "1", "9", "9", "2", "5", "4", "7", "4", "0", "9", "9", "3">>),
        PyBigInt(TRUE, <<"9", "0", "0", "7", "1", "9", "9", "2", "5", "4", "7", "4", "0", "9", "9", "9">>), PyBigInt(TRUE, <<"9", "0", "0", "7", "1", "9", "9", "2", "5", "4", "7", "4", "1", "0", "0", "0">>)}
           \cup {PyInt(n) : n \in Ints} \cup {PyFloat(f) : f \in Floats}
           \cup {PyStr(s) : s \in Texts \cup UNION {[1..n -> AmountChars] : n \in 0..MaxAmountLen}}

FormatInit ==
    /\ AppIdle
    /\ value \in Amounts
    /\ verdict = [fn |-> "", outcome |-> NotCalled]
    /\ ParseIdle
    /\ AddressIdle
    /\ FilesIdle

CallFormatCurrency ==
    /\ verdict.fn = ""
    /\ verdict' = [fn |-> "format_currency", outcome |-> format_currency(value)]
    /\ UNCHANGED <<appVars, value, parseVars, addressVars, fileVars>>

CallParseNumeric(allow_negative) ==
    /\ verdict.fn = ""
    /\ value.type # "bigint"
    /\ verdict' = [fn |-> "parse_numeric", allow_negative |-> allow_negative,
                   outcome |-> parse_numeric(value, allow_negative)]
    /\ UNCHANGED <<appVars, value, parseVars, addressVars, fileVars>>

\* parse_numeric(format_currency(n)) for an int n.
CallParseFormatted ==
    /\ verdict.fn = ""
    /\ value.type = "int"
    /\ verdict' = [fn |-> "parse_numeric(format_currency)",
                   outcome |-> parse_numeric(format_currency(value).value, TRUE)]
    /\ UNCHANGED <<appVars, value, parseVars, addressVars, fileVars>>

FormatNext ==
    \/ CallFormatCurrency
    \/ \E allow_negative \in BOOLEAN : CallParseNumeric(allow_negative)
    \/ CallParseFormatted

SpecFormat == FormatInit /\ [][FormatNext]_vars

\* The text is the digits in groups of three from the right, a single space
\* between two groups.
GroupedInThrees(text, digits) ==
    LET groups == SplitOn(text, {" "})
    IN /\ Concat(groups) = digits
       /\ Len(groups[1]) \in 1..3
       /\ \A i \in 2..Len(groups) : Len(groups[i]) = 3

\* The digits of |n| for an int n of either kind.
AbsDigits(n) ==
    IF n.type = "bigint" THEN n.digits ELSE DigitsOf(IF n.int < 0 THEN 0 - n.int ELSE n.int)

\* C15 as stated: for every integer n, format_currency(n) is a leading '-'
\* when n is negative, then the decimal digits of |n| grouped in threes from
\* the right with a single space between groups, no decimal part, then the
\* suffix " Ar"; an absent value gives the empty string and a non-numeric
\* input (a text float() rejects) is returned unchanged as a string.
C15_FormatsEveryInteger ==
    verdict.fn = "format_currency" =>
        LET negative == IF value.type = "bigint" THEN value.neg ELSE value.int < 0
            FormatOf(text) ==
                /\ Len(text) > 3 /\ SubSeq(text, Len(text) - 2, Len(text)) = <<" ", "A", "r">>
                /\ negative <=> text[1] = "-"
                /\ GroupedInThrees(SubSeq(text, IF negative THEN 2 ELSE 1, Len(text) - 3),
                                   AbsDigits(value))
        IN CASE value.type \in {"int", "bigint"} ->
                    /\ verdict.outcome.raised = "" /\ verdict.outcome.value.type = "str"
                    /\ FormatOf(verdict.outcome.value.text)
             [] value.type = "None" -> verdict.outcome = Returned(PyStr(<<>>))
             [] value.type = "str" ->
                    FloatOf(value.text).raised # "" => verdict.outcome = Returned(value)
             [] OTHER -> TRUE

\* C15, amended: the same for every integer n that a float holds exactly
\* (every n up to 2**53 in size, and the even n up to 2**54).
C15_FormatsExactIntegers ==
    (value.type = "bigint" /\ FloatOfBigInt(value.neg, value.digits).mant # value.digits)
        \/ C15_FormatsEveryInteger

\* format_currency has been called on an int of seven digits, and on the
\* int 2**53: each has come back in groups of three.
C15_Witness ==
    /\ verdict.fn = "format_currency"
    /\ \/ value = PyInt(1234567) /\ verdict.outcome = Returned(PyStr(<<"1", " ", "2", "3", "4", " ", "5", "6", "7", " ", "A", "r">>))
       \/ /\ value = PyBigInt(FALSE, <<"9", "0", "0", "7", "1", "9", "9", "2", "5", "4", "7", "4", "0", "9", "9", "2">>)
          /\ verdict.outcome = Returned(PyStr(<<"9", " ", "0", "0", "7", " ", "1", "9", "9", " ", "2", "5", "4", " ", "7", "4", "0", " ", "9", "9", "2", " ", "A", "r">>))

\* The text without its spaces and commas and without any a or A followed
\* by an r or R.
WithoutSuffix(text) ==
    LET t == Remove(text, {" ", ","})
        At(i) == i >= 1 /\ i < Len(t) /\ t[i] \in {"a", "A"} /\ t[i + 1] \in {"r", "R"}
    IN [k \in 1..Cardinality({i \in 1..Len(t) : ~At(i) /\ ~At(i - 1)}) |->
           t[CHOOSE i \in 1..Len(t) :
                 /\ ~At(i) /\ ~At(i - 1)
                 /\ Cardinality({j \in 1..(i - 1) : ~At(j) /\ ~At(j - 1)}) = k - 1]]

\* C16: for every string, parse_numeric removes spaces, commas and the
\* currency suffix "Ar" written in any letter case, then returns the integer
\* value when the remaining text is an integer literal, and returns None,
\* without raising, when the remaining text is empty or not a number, or
\* when it is negative and allow_negative is false; as a consequence
\* parse_numeric(format_currency(n)) = n for every integer n.
C16_ParsesAnySuffixCase ==
    /\ (verdict.fn = "parse_numeric" /\ value.type = "str") =>
          LET Expected(int, float) ==
                  IF int.raised = ""
                  THEN verdict.outcome =
                           IF int.value < 0 /\ ~verdict.allow_negative THEN Returned(PyNone)
                           ELSE Returned(PyInt(int.value))
                  ELSE IF float.raised # "" \/ float.value.kind # "num"
                  THEN verdict.outcome = Returned(PyNone)
                  ELSE IF FloatLt0(float.value) /\ ~verdict.allow_negative
                  THEN verdict.outcome = Returned(PyNone)
                  ELSE verdict.outcome.raised = ""
          IN Expected(IntLiteral(WithoutSuffix(value.text)), FloatOf(WithoutSuffix(value.text)))
    /\ verdict.fn = "parse_numeric(format_currency)" => verdict.outcome = Returned(value)

\* C16 holds for the texts without a capital R, and on what format_currency
\* gives for an int.
C16_ExceptCapitalR ==
    (value.type = "str" /\ \E i \in 1..Len(value.text) : value.text[i] = "R")
        \/ C16_ParsesAnySuffixCase
(***************************************************************************)
(* load_products on the catalogs of up to MaxCatalogRows rows.             *)
(***************************************************************************)
MaxCatalogRows == 3

\* Rows of a catalog: header rows with a price that is and is not a number,
\* a first cell that is a header word only once trimmed, rows for one code
\* in two spellings, a short row, a price that is not a number, an empty
\* line.
CatalogRows ==
    {<<<<"C", "o", "d", "e">>, <<"N", "a", "m", "e">>, <<"P", "r", "i", "c", "e">>>>, <<<<"S", "K", "U">>, <<"n">>, <<"1">>>>, <<<<" ", "c", "o", "d", "e">>, <<"n">>, <<"2">>>>,
     <<<<"c", "a">>, <<"x">>, <<" ", "5", " ">>>>, <<<<" ", "C", "a", " ">>, <<"y">>, <<"7", ".", "5">>, <<"u", "n", "i", "t">>>>, <<<<"q">>, <<"y">>>>,
     <<<<"z">>, <<"w">>, <<"a", "b", "c">>>>, <<>>}

\* The catalog file holds up to MaxCatalogRows rows, written as a
\* spreadsheet saves them.
CatalogInit ==
    /\ AppIdle
    /\ \E rows \in UNION {[1..n -> CatalogRows] : n \in 0..MaxCatalogRows} :
          /\ edited = [written |-> TRUE, header |-> <<>>, rows |-> rows]
          /\ products_file = TextFile(WriteStrRows(rows))
    /\ agents_file = MissingFile /\ orders_file = MissingFile
    /\ export_call = NoExport /\ loaded = NoLoad
    /\ ParseIdle
    /\ ValidateIdle
    /\ AddressIdle

CatalogNext == \E writable \in BOOLEAN : LoadProducts(writable)

SpecCatalog == CatalogInit /\ [][CatalogNext]_vars

\* C17: load_products treats the first row of the catalog as a header, and
\* skips it, exactly when the lowercased text of its first cell is one of
\* code, product, sku; every other row with at least three columns and a
\* numeric third column (one float() accepts) contributes the mapping
\* (trimmed upper-cased first cell -> price), a later row overriding an
\* earlier one with the same code; rows with fewer than three columns or a
\* non-numeric price are skipped without error.
C17_CatalogRowsContribute ==
    loaded.fn = "load_products" =>
        LET rows == edited.rows
            header == Len(rows) > 0 /\ Len(rows[1]) > 0
                          /\ LowerStr(rows[1][1]) \in {<<"c", "o", "d", "e">>, <<"p", "r", "o", "d", "u", "c", "t">>, <<"s", "k", "u">>}
            Contributes(i) ==
                /\ i > 1 \/ ~header
                /\ Len(rows[i]) >= 3
                /\ FloatOf(Strip(rows[i][3])).raised = ""
            Code(i) == PyStr(UpperStr(Strip(rows[i][1])))
            contributing == {i \in 1..Len(rows) : Contributes(i)}
            Last(code) == CHOOSE i \in contributing :
                              Code(i) = code /\ \A j \in contributing : Code(j) = code => j <= i
            mapping == loaded.outcome.value
        IN /\ loaded.outcome.raised = ""
           /\ {mapping.keys[k] : k \in 1..Len(mapping.keys)} = {Code(i) : i \in contributing}
           /\ \A k, l \in 1..Len(mapping.keys) : mapping.keys[k] = mapping.keys[l] => k = l
           /\ \A k \in 1..Len(mapping.keys) :
                  mapping.vals[k] = PyFloat(FloatOf(Strip(rows[Last(mapping.keys[k])][3])).value)

\* A catalog of a header row with a numeric third cell, a row for CA and a
\* later row for the same code has been loaded: the header has given
\* nothing and the later price stands.
C17_Witness ==
    /\ loaded.fn = "load_products"
    /\ edited.rows = <<<<<<"S", "K", "U">>, <<"n">>, <<"1">>>>, <<<<"c", "a">>, <<"x">>, <<" ", "5", " ">>>>,
                       <<<<" ", "C", "a", " ">>, <<"y">>, <<"7", ".", "5">>, <<"u", "n", "i", "t">>>>>>
    /\ loaded.outcome = Returned(PyDict(<<PyStr(<<"C", "A">>)>>, <<PyFloat(Num(FALSE, <<"7", "5">>, 1))>>))
(***************************************************************************)
(* Two application instances running save_address on one addresses file, *)
(* step by step: the read, the open for writing, the close.                *)
(***************************************************************************)
\* Each of two instances is about to save an address; the file is missing
\* or holds one address.
RaceInit ==
    /\ table = <<>> /\ products = [type |-> "dict", keys |-> <<>>, vals |-> <<>>]
    /\ last = [op |-> "", n |-> 0] /\ saving = [phase |-> "idle"]
    /\ app_agents = DEFAULT_AGENTS /\ agents_dialog = NoDialog
    /\ instances \in [1..2 -> {[pc |-> "start", address |-> a, seen |-> MissingFile]
                                   : a \in {<<"b">>, <<"a", "a", "a", "a">>, <<" ", "x", " ">>, <<"L", "o", "t", " ", "5">>, <<" ">>}}]
    /\ addresses_file \in {MissingFile, TextFile(<<"x", "\n">>), TextFile(<<"L", "o", "t", " ", "1", "2", "\n", "b", "\n">>)}
    /\ saved = <<>>
    /\ ParseIdle
    /\ ValidateIdle
    /\ FilesIdle

\* Lines 49 to 53: a blank address returns; otherwise load_addresses()
\* reads the whole file.
ReadHistory(i) ==
    /\ instances[i].pc = "start"
    /\ instances' = [instances EXCEPT
                         ![i].pc = IF Len(Strip(instances[i].address)) = 0 THEN "done" ELSE "read",
                         ![i].seen = addresses_file]
    /\ UNCHANGED <<agentVars, table, products, last, saving, parseVars, validateVars, addressVars,
                   fileVars>>

\* open(self.addresses_file, 'w'): the file is emptied; the instance will
\* write from the start of the file.
OpenHistory(i) ==
    /\ instances[i].pc = "read"
    /\ addresses_file' = TextFile(<<>>)
    /\ instances' = [instances EXCEPT ![i].pc = "open"]
    /\ UNCHANGED <<agentVars, table, products, last, saving, parseVars, validateVars, saved, fileVars>>

\* The end of the with block: the lines of the instance are written over
\* the start of the file, and what the file holds beyond them stays.
CloseHistory(i) ==
    LET Written(text) ==
            TextFile(text \o SubSeq(addresses_file.text, Len(text) + 1,
                                    Len(addresses_file.text)))
    IN /\ instances[i].pc = "open"
       /\ addresses_file' = Written(save_address(instances[i].seen, instances[i].address).text)
       /\ instances' = [instances EXCEPT ![i].pc = "done"]
       /\ last' = [op |-> "save_address", n |-> last.n + 1, by |-> i]
       /\ UNCHANGED <<agentVars, table, products, saving, parseVars, validateVars, saved, fileVars>>

RaceNext == \E i \in 1..2 : ReadHistory(i) \/ OpenHistory(i) \/ CloseHistory(i)

SpecRace == RaceInit /\ [][RaceNext]_vars

\* C18: when two application instances run save_address on the same
\* addresses file with their steps interleaved, the file content after both
\* finish is exactly the list written by the instance that wrote last (last
\* writer wins): it contains that instance's address at the front and
\* nothing is merged in from the other instance's write.
C18_LastWriterWins ==
    ((\A i \in 1..2 : instances[i].pc = "done") /\ last.op = "save_address") =>
        /\ addresses_file =
               save_address(instances[last.by].seen, instances[last.by].address)
        /\ Head(load_addresses(addresses_file)) = Strip(instances[last.by].address)

\* An instance that runs alone, from its read to its close, leaves what
\* save_address leaves.
AloneAgreesWithSaveAddress ==
    (last.n = 1 /\ \E i \in 1..2 : instances[i].pc = "start") =>
        addresses_file = save_address(instances[last.by].seen, instances[last.by].address)
(***************************************************************************)
(* config.py, ui/table.py and ui/main_window.py: the order table           *)
(***************************************************************************)
COLUMNS ==
    <<<<"C", "l", "i", "e", "n", "t", " ", "N", "a", "m", "e">>, <<"P", "h", "o", "n", "e">>, <<"A", "d", "d", "r", "e", "s", "s">>, <<"D", "e", "l", "i", "v", "e", "r", "y", " ", "F", "e", "e">>, <<"P", "r", "o", "d", "u", "c", "t", "(", "s", ")">>,
      <<"T", "o", "t", "a", "l", " ", "P", "r", "i", "c", "e">>, <<"S", "t", "a", "t", "u", "s">>, <<"A", "g", "e", "n", "t">>, <<"N", "o", "t", "e", "s">>>>

\* Config.COLUMNS.index(name)
ColumnIndex(name) == CHOOSE i \in 1..Len(COLUMNS) : COLUMNS[i] = name

\* The status buttons, and the keys of STATUS_COLORS.
DEFAULT_STATUSES == <<<<"O", "k">>, <<"O", "k", " ", "w", "i", "t", "h", " ", "r", "e", "t", "o", "u", "r">>, <<"C", "a", "n", "c", "e", "l", "l", "e", "d">>, <<"R", "e", "p", "o", "r", "t", "e", "d">>, <<"P", "e", "n", "d", "i", "n", "g">>>>
STATUS_COLORS == {<<"P", "e", "n", "d", "i", "n", "g">>, <<"O", "k">>, <<"O", "k", " ", "w", "i", "t", "h", " ", "r", "e", "t", "o", "u", "r">>, <<"C", "a", "n", "c", "e", "l", "l", "e", "d">>, <<"R", "e", "p", "o", "r", "t", "e", "d">>}

\* The text the tree keeps for a value of a row: str(value).
CellText(v) == IF v.type = "None" THEN <<"N", "o", "n", "e">> ELSE v.text

\* a + b on floats whose sum is exact (integers and halves).
FloatAdd(a, b) ==
    LET s == IF a.scale > b.scale THEN a.scale ELSE b.scale
        Units(f) == (IF f.neg THEN -1 ELSE 1) * DigitsVal(f.mant \o [i \in 1..(s - f.scale) |-> "0"])
        Sum(n) == Num(IF n = 0 THEN a.neg /\ b.neg ELSE n < 0,
                      LStrip(DigitsOf(IF n < 0 THEN 0 - n ELSE n), {"0"}), s)
    IN IF a.kind = "nan" \/ b.kind = "nan" THEN NaN
       ELSE IF a.kind = "inf" /\ b.kind = "inf" THEN (IF a.neg = b.neg THEN a ELSE NaN)
       ELSE IF a.kind = "inf" THEN a
       ELSE IF b.kind = "inf" THEN b
       ELSE Sum(Units(a) + Units(b))

\* _update_row_color(item, values): the tags the row gets for the values
\* handed in.
update_row_color(values) ==
    LET Arg(v) == IF v.type = "None" THEN None ELSE Str(v.text)
        is_valid ==
            /\ validate_phone(Arg(values[ColumnIndex(<<"P", "h", "o", "n", "e">>)])).value.flag
            /\ validate_address(Arg(values[ColumnIndex(<<"A", "d", "d", "r", "e", "s", "s">>)])).value.flag
            /\ validate_delivery_fee(Arg(values[ColumnIndex(<<"D", "e", "l", "i", "v", "e", "r", "y", " ", "F", "e", "e">>)])).value.flag
        status == values[ColumnIndex(<<"S", "t", "a", "t", "u", "s">>)]
    IN IF ~is_valid THEN <<<<"i", "n", "v", "a", "l", "i", "d">>>>
       ELSE IF status.type = "str" /\ status.text \in STATUS_COLORS
       THEN <<<<"s", "t", "a", "t", "u", "s", "_">> \o status.text>>
       ELSE <<>>

\* insert_row(values): the row joins the end of the table; the tree keeps
\* the text of each value, the tags are those of the values handed in.
insert_row(rows, values) ==
    Append(rows, [values |-> [i \in 1..Len(values) |-> CellText(values[i])],
                  tags |-> update_row_color(values)])

RECURSIVE ProductsTotal(_, _, _)
\* The loop of _recalculate_total over the first n parsed products.
ProductsTotal(parsed_products, catalog, n) ==
    IF n = 0 THEN Num(FALSE, <<>>, 0)
    ELSE LET code == PyStr(parsed_products[n].code)
             price == IF DictHas(catalog, code) THEN DictGet(catalog, code).float
                      ELSE Num(FALSE, <<>>, 0)
         IN FloatAdd(ProductsTotal(parsed_products, catalog, n - 1),
                     FloatMulInt(parsed_products[n].qty, price))

\* _recalculate_total(item) on the texts of the row: the text for the Total
\* Price cell, or the exception of parse_product_field or of
\* format_currency, which nothing catches.
recalculate_total(values, catalog) ==
    LET Fee(converted) == IF converted.raised # "" THEN Num(FALSE, <<>>, 0) ELSE converted.value
        Total(entries) ==
            IF entries.raised # "" THEN entries
            ELSE format_currency(PyFloat(
                     FloatAdd(ProductsTotal(entries.value, catalog, Len(entries.value)),
                              Fee(FloatOf(values[ColumnIndex(<<"D", "e", "l", "i", "v", "e", "r", "y", " ", "F", "e", "e">>)])))))
    IN Total(parse_product_field(values[ColumnIndex(<<"P", "r", "o", "d", "u", "c", "t", "(", "s", ")">>)]))

\* Order.is_valid
is_valid(order) ==
    /\ Len(Strip(order.client_name)) > 0
    /\ Len(Strip(order.phone)) > 0
    /\ Len(Strip(order.address)) > 0
    /\ ~FloatLt0(order.delivery_fee)

\* The body of the loop of _convert_rows_to_orders for one row of
\* get_all_rows (the texts of its cells): the Order, or the exception of
\* parse_product_field. float() is applied to the fee, then to the total,
\* an empty cell counting as 0; a ValueError of either sets both to 0.0.
RowOrder(values, catalog) ==
    LET Cell(name) == values[ColumnIndex(name)]
        Number(text) == IF Len(text) = 0 THEN Returned(Num(FALSE, <<>>, 0)) ELSE FloatOf(text)
        Both(fee, total) == fee.raised = "" /\ total.raised = ""
        Amount(fee, total, wanted) ==
            IF Both(fee, total) THEN wanted.value ELSE Num(FALSE, <<>>, 0)
        Price(code) == IF DictHas(catalog, PyStr(code)) THEN DictGet(catalog, PyStr(code)).float
                       ELSE Num(FALSE, <<>>, 0)
        Built(fee, total, entries) ==
            IF entries.raised # "" THEN entries
            ELSE Returned(
                [client_name |-> Cell(<<"C", "l", "i", "e", "n", "t", " ", "N", "a", "m", "e">>), phone |-> Cell(<<"P", "h", "o", "n", "e">>),
                 address |-> Cell(<<"A", "d", "d", "r", "e", "s", "s">>),
                 delivery_fee |-> Amount(fee, total, fee),
                 products |-> Cell(<<"P", "r", "o", "d", "u", "c", "t", "(", "s", ")">>),
                 total_price |-> Amount(fee, total, total),
                 status |-> Cell(<<"S", "t", "a", "t", "u", "s">>), agent |-> Cell(<<"A", "g", "e", "n", "t">>),
                 notes |-> Cell(<<"N", "o", "t", "e", "s">>),
                 order_lines |-> [i \in 1..Len(entries.value) |->
                                     OrderLine(entries.value[i].code, entries.value[i].qty,
                                               Price(entries.value[i].code))]])
    IN Built(Number(Cell(<<"D", "e", "l", "i", "v", "e", "r", "y", " ", "F", "e", "e">>)), Number(Cell(<<"T", "o", "t", "a", "l", " ", "P", "r", "i", "c", "e">>)),
             parse_product_field(Cell(<<"P", "r", "o", "d", "u", "c", "t", "(", "s", ")">>)))

RECURSIVE ConvertRows(_, _, _)
\* The loop of _convert_rows_to_orders over the first n rows: the Orders so
\* far, or the exception of the first row that raises.
ConvertRows(rows, catalog, n) ==
    IF n = 0 THEN Returned(<<>>)
    ELSE LET Step(sofar, order) ==
                 IF sofar.raised # "" THEN sofar
                 ELSE IF order.raised # "" THEN order
                 ELSE Returned(Append(sofar.value, order.value))
         IN Step(ConvertRows(rows, catalog, n - 1), RowOrder(rows[n], catalog))

\* _convert_rows_to_orders(rows)
convert_rows_to_orders(rows, catalog) == ConvertRows(rows, catalog, Len(rows))
(***************************************************************************)
(* The table under Add Row, committed cell edits, the status buttons and  *)
(* Load CSV, for up to MaxOps operations on up to MaxTableRows rows.       *)
(***************************************************************************)
MaxOps == 3
MaxTableRows == 2

\* The texts typed into a cell of each column.
CellEdits ==
    [c \in 1..Len(COLUMNS) |->
        CASE COLUMNS[c] = <<"C", "l", "i", "e", "n", "t", " ", "N", "a", "m", "e">> -> {<<"A", "n", "n">>}
          [] COLUMNS[c] = <<"P", "h", "o", "n", "e">> -> {<<"0", "3", "4", "1", "2", "3", "4", "5", "6", "7">>, <<"1", "2">>}
          [] COLUMNS[c] = <<"A", "d", "d", "r", "e", "s", "s">> -> {<<"L", "o", "t", " ", "5">>, <<" ">>, <<"a", "\n", "b">>}
          [] COLUMNS[c] = <<"D", "e", "l", "i", "v", "e", "r", "y", " ", "F", "e", "e">> -> {<<"4", "0", "0", "0">>, <<"a", "b", "c">>, <<"n", "a", "n">>}
          [] COLUMNS[c] = <<"P", "r", "o", "d", "u", "c", "t", "(", "s", ")">> -> {<<"C", "A", " ", "x", " ", "2">>, <<"B", "S", ":", "3", ",", " ", "Z", "Z">>, <<"-", " ", "-", "-", "2">>}
          [] COLUMNS[c] = <<"T", "o", "t", "a", "l", " ", "P", "r", "i", "c", "e">> -> {<<"1", " ", "A", "r">>}
          [] COLUMNS[c] = <<"S", "t", "a", "t", "u", "s">> -> {<<"O", "k">>, <<"D", "o", "n", "e">>}
          [] OTHER -> {<<"x">>}]

\* The application has started: the table is empty and the catalog is what
\* load_products() gives for a catalog of two products. The file Load CSV
\* will be pointed at is missing, unreadable, an export of two orders, or
\* written by hand: a row that ends before the Address column, a status of
\* its own. The address history holds two addresses.
TableInit ==
    /\ table = <<>>
    /\ products = load_products(TextFile(<<"C", "o", "d", "e", ",", "N", "a", "m", "e", ",", "P", "r", "i", "c", "e", "\n", "C", "A", ",", "C", "r", "e", "m", "e", ",", "2", "5", "0", "0", "0", "\n", "B", "S", ",", "B", "a", "s", "e", ",", "0", ".", "5", "\n">>),
                                TRUE).outcome.value
    /\ last = [op |-> "", n |-> 0]
    /\ instances = <<>> /\ saving = [phase |-> "idle"]
    /\ orders_file \in
           {MissingFile, UnreadableFile,
            TextFile(ExportText(<<PlainOrder(LinesFrom(1, 1)), AwkwardOrder(<<>>)>>)),
            TextFile(<<"P", "h", "o", "n", "e", ",", "D", "e", "l", "i", "v", "e", "r", "y", " ", "F", "e", "e", ",", "A", "d", "d", "r", "e", "s", "s", ",", "S", "t", "a", "t", "u", "s", "\n", "0", "3", "4", "1", "2", "3", "4", "5", "6", "7", ",", "3", "0", "0", "0", "\n", "0", "3", "4", "1", "2", "3", "4", "5", "6", "7", ",", "3", "0", "0", "0", ",", "L", "o", "t", " ", "5", ",", "D", "o", "n", "e", "\n">>)}
    /\ agents_file = MissingFile /\ products_file = MissingFile
    /\ app_agents = load_agents(agents_file) /\ agents_dialog = NoDialog
    /\ export_call = NoExport /\ edited = NoEdit /\ loaded = NoLoad
    /\ addresses_file = TextFile(<<"x", "\n", "L", "o", "t", " ", "5", "\n">>) /\ saved = <<>>
    /\ ParseIdle
    /\ ValidateIdle

\* Add Row: an empty row with the default status and the first delivery fee.
AddRow ==
    /\ last.n < MaxOps /\ Len(table) < MaxTableRows
    /\ table' = insert_row(table,
                           [c \in 1..Len(COLUMNS) |->
                               PyStr(CASE COLUMNS[c] = <<"S", "t", "a", "t", "u", "s">> -> <<"P", "e", "n", "d", "i", "n", "g">>
                                       [] COLUMNS[c] = <<"D", "e", "l", "i", "v", "e", "r", "y", " ", "F", "e", "e">> -> <<"3", "0", "0", "0">>
                                       [] OTHER -> <<>>)])
    /\ last' = [op |-> "add_row", n |-> last.n + 1, before |-> table]
    /\ UNCHANGED <<agentVars, products, instances, saving, parseVars, validateVars, addressVars, fileVars>>

\* A committed cell edit: save_edit puts the text into the row and recolors
\* it, then _on_cell_edited saves a non-blank address to the history and
\* recalculates the total after an edit of the products or of the fee. An
\* exception of the recalculation leaves the callback with the cell and the
\* tags already set.
CommitEdit(item, col_index, new_value) ==
    LET values == [table[item].values EXCEPT ![col_index] = new_value]
        Recalculated(total) ==
            IF total.raised # "" THEN values
            ELSE [values EXCEPT ![ColumnIndex(<<"T", "o", "t", "a", "l", " ", "P", "r", "i", "c", "e">>)] = total.value.text]
    IN /\ last.n < MaxOps
       /\ table' = [table EXCEPT ![item] =
                        [values |-> IF COLUMNS[col_index] \in {<<"P", "r", "o", "d", "u", "c", "t", "(", "s", ")">>, <<"D", "e", "l", "i", "v", "e", "r", "y", " ", "F", "e", "e">>}
                                    THEN Recalculated(recalculate_total(values, products))
                                    ELSE values,
                         tags |-> update_row_color([c \in 1..Len(values) |-> PyStr(values[c])])]]
       /\ addresses_file' =
              IF COLUMNS[col_index] = <<"A", "d", "d", "r", "e", "s", "s">> /\ Len(Strip(new_value)) > 0
              THEN save_address(addresses_file, new_value) ELSE addresses_file
       /\ last' = [op |-> "edit", n |-> last.n + 1, before |-> table, item |-> item,
                   col_name |-> COLUMNS[col_index], new_value |-> new_value,
                   history |-> addresses_file]
       /\ UNCHANGED <<agentVars, products, instances, saving, parseVars, validateVars, saved, fileVars>>

\* Escape in the entry of a cell: cancel_edit destroys the entry, nothing
\* is stored and no callback runs.
CancelEdit(item, col_index) ==
    /\ last.n < MaxOps
    /\ last' = [op |-> "cancel_edit", n |-> last.n + 1, before |-> table, item |-> item,
                col_name |-> COLUMNS[col_index], history |-> addresses_file]
    /\ UNCHANGED <<agentVars, table, products, instances, saving, parseVars, validateVars, addressVars,
                   fileVars>>

\* A status button that sets the status of every row of the table.
StatusClicked_EveryRow(selected, status) ==
    /\ last.n < MaxOps
    /\ table' = [i \in 1..Len(table) |->
                    IF i \in 1..Len(table)
                    THEN [values |-> [table[i].values EXCEPT ![ColumnIndex(<<"S", "t", "a", "t", "u", "s">>)] = status],
                          tags |-> update_row_color(
                                       [c \in 1..Len(COLUMNS) |->
                                           PyStr(IF COLUMNS[c] = <<"S", "t", "a", "t", "u", "s">> THEN status
                                                 ELSE table[i].values[c])])]
                    ELSE table[i]]
    /\ last' = [op |-> "status", n |-> last.n + 1, before |-> table, selected |-> selected,
                status |-> status]
    /\ UNCHANGED <<agentVars, products, instances, saving, parseVars, validateVars, addressVars, fileVars>>

\* A status button with the rows selected: each selected row gets the
\* status and is recolored; with no row selected a warning is shown.
StatusClicked(selected, status) ==
    /\ last.n < MaxOps
    /\ table' = [i \in 1..Len(table) |->
                    IF i \in selected
                    THEN [values |-> [table[i].values EXCEPT ![ColumnIndex(<<"S", "t", "a", "t", "u", "s">>)] = status],
                          tags |-> update_row_color(
                                       [c \in 1..Len(COLUMNS) |->
                                           PyStr(IF COLUMNS[c] = <<"S", "t", "a", "t", "u", "s">> THEN status
                                                 ELSE table[i].values[c])])]
                    ELSE table[i]]
    /\ last' = [op |-> "status", n |-> last.n + 1, before |-> table, selected |-> selected,
                status |-> status]
    /\ UNCHANGED <<agentVars, products, instances, saving, parseVars, validateVars, addressVars, fileVars>>

RECURSIVE InsertRows(_, _, _)
\* The loop of _load_csv over the first n dicts: the cell of each column,
\* the empty string for a column the dict lacks (the default status for
\* Status), and insert_row.
InsertRows(rows, order_dicts, n) ==
    IF n = 0 THEN rows
    ELSE insert_row(InsertRows(rows, order_dicts, n - 1),
                    [c \in 1..Len(COLUMNS) |->
                        IF DictHas(order_dicts[n], PyStr(COLUMNS[c]))
                        THEN DictGet(order_dicts[n], PyStr(COLUMNS[c]))
                        ELSE PyStr(IF COLUMNS[c] = <<"S", "t", "a", "t", "u", "s">> THEN <<"P", "e", "n", "d", "i", "n", "g">> ELSE <<>>)])

\* Load CSV with the table cleared before the import instead of after it.
LoadCsv_ClearsFirst(filepath) ==
    LET Loaded(imported) ==
            IF imported.raised # "" THEN <<>>
            ELSE InsertRows(<<>>, imported.value, Len(imported.value))
    IN /\ last.n < MaxOps
       /\ table' = IF Len(filepath) = 0 THEN table ELSE Loaded(import_orders(orders_file))
       /\ last' = [op |-> "load_csv", n |-> last.n + 1, before |-> table,
                   filepath |-> filepath]
       /\ UNCHANGED <<agentVars, products, instances, saving, parseVars, validateVars, addressVars,
                      fileVars>>

\* Load CSV: a cancelled file dialog gives no path and nothing happens;
\* otherwise the rows of the file replace the table, and an import that
\* raises is shown in a dialog and the table stays.
LoadCsv(filepath) ==
    LET Loaded(imported) ==
            IF imported.raised # "" THEN table
            ELSE InsertRows(<<>>, imported.value, Len(imported.value))
    IN /\ last.n < MaxOps
       /\ table' = IF Len(filepath) = 0 THEN table ELSE Loaded(import_orders(orders_file))
       /\ last' = [op |-> "load_csv", n |-> last.n + 1, before |-> table,
                   filepath |-> filepath]
       /\ UNCHANGED <<agentVars, products, instances, saving, parseVars, validateVars, addressVars,
                      fileVars>>

\* Save CSV: a cancelled file dialog gives no path and nothing happens;
\* otherwise the rows of the table are converted to Orders and exported.
\* An exception of the conversion or of the export is shown in a dialog.
SaveCsv(filepath) ==
    LET Saved(orders) ==
            /\ orders_file' = IF Len(filepath) = 0 \/ orders.raised # "" THEN orders_file
                              ELSE export_orders(orders_file, orders.value).file
            /\ last' = [op |-> "save_csv", n |-> last.n + 1, before |-> table,
                        filepath |-> filepath,
                        orders |-> IF Len(filepath) = 0 THEN NotCalled ELSE orders]
    IN /\ last.n < MaxOps
       /\ Saved(convert_rows_to_orders([i \in 1..Len(table) |-> table[i].values], products))
       /\ UNCHANGED <<agentVars, table, products, instances, saving, parseVars, validateVars,
                      addressVars, agents_file, products_file, export_call, edited, loaded>>

TableNext ==
    \/ AddRow
    \/ \E item \in 1..Len(table) : \E col_index \in 1..Len(COLUMNS) :
          \E new_value \in CellEdits[col_index] : CommitEdit(item, col_index, new_value)
    \/ \E selected \in SUBSET (1..Len(table)) : \E s \in 1..Len(DEFAULT_STATUSES) :
          StatusClicked(selected, DEFAULT_STATUSES[s])
    \/ \E item \in 1..Len(table) : \E col_index \in 1..Len(COLUMNS) : CancelEdit(item, col_index)
    \/ \E filepath \in {<<>>, <<"o", "r", "d", "e", "r", "s", ".", "c", "s", "v">>} : LoadCsv(filepath)
    \/ \E filepath \in {<<>>, <<"o", "r", "d", "e", "r", "s", ".", "c", "s", "v">>} : SaveCsv(filepath)

SpecTable == TableInit /\ [][TableNext]_vars

\* C13: in every reachable state of the table, after any sequence of Add
\* Row, cell edits, bulk status updates and Load CSV, the Status of every
\* row is one of the five labels Pending, Ok, Ok with retour, Cancelled,
\* Reported.
C13_StatusIsOneOfFive ==
    \A i \in 1..Len(table) :
        table[i].values[ColumnIndex(<<"S", "t", "a", "t", "u", "s">>)]
            \in {<<"P", "e", "n", "d", "i", "n", "g">>, <<"O", "k">>, <<"O", "k", " ", "w", "i", "t", "h", " ", "r", "e", "t", "o", "u", "r">>, <<"C", "a", "n", "c", "e", "l", "l", "e", "d">>, <<"R", "e", "p", "o", "r", "t", "e", "d">>}

\* The tags the claim gives a row for the texts it holds now.
TagsOfCurrentValues(row) ==
    LET Cell(name) == Str(row.values[ColumnIndex(name)])
        status == row.values[ColumnIndex(<<"S", "t", "a", "t", "u", "s">>)]
    IN IF \/ ~validate_phone(Cell(<<"P", "h", "o", "n", "e">>)).value.flag
          \/ ~validate_address(Cell(<<"A", "d", "d", "r", "e", "s", "s">>)).value.flag
          \/ ~validate_delivery_fee(Cell(<<"D", "e", "l", "i", "v", "e", "r", "y", " ", "F", "e", "e">>)).value.flag
       THEN <<<<"i", "n", "v", "a", "l", "i", "d">>>>
       ELSE IF status \in {<<"P", "e", "n", "d", "i", "n", "g">>, <<"O", "k">>, <<"O", "k", " ", "w", "i", "t", "h", " ", "r", "e", "t", "o", "u", "r">>, <<"C", "a", "n", "c", "e", "l", "l", "e", "d">>, <<"R", "e", "p", "o", "r", "t", "e", "d">>}
       THEN <<<<"s", "t", "a", "t", "u", "s", "_">> \o status>>
       ELSE <<>>

\* C19: in every reachable state of the table, each row's highlight agrees
\* with its current values: the row carries exactly the tag 'invalid' when
\* validate_phone, validate_address or validate_delivery_fee fails on its
\* current Phone, Address or Delivery Fee; otherwise exactly the tag of its
\* current Status when that Status is one of the five coloured statuses;
\* otherwise no tag. A row never carries both the invalid tag and a status
\* tag.
C19_HighlightAgreesWithValues ==
    \A i \in 1..Len(table) : table[i].tags = TagsOfCurrentValues(table[i])

\* C19 holds as long as no row has been loaded from a file that left one of
\* its cells without a value.
C19_ExceptLoadedNone ==
    \A i \in 1..Len(table) :
        (\A c \in 1..Len(COLUMNS) : table[i].values[c] # <<"N", "o", "n", "e">>)
            => table[i].tags = TagsOfCurrentValues(table[i])

\* C20: immediately after a committed edit of a row's Product(s) or
\* Delivery Fee cell, that row's Total Price cell equals format_currency of
\* (the sum over the parsed product entries of quantity x catalog price of
\* the code, a code absent from the catalog counting as price 0, plus the
\* row's delivery fee, a fee that does not parse as a number counting as
\* 0); a committed edit of any other column (the Total Price cell itself
\* apart) leaves the row's Total Price cell unchanged, and no edit changes
\* the Total Price of another row.
C20_TotalFollowsEdit ==
    last.op = "edit" =>
        LET total == ColumnIndex(<<"T", "o", "t", "a", "l", " ", "P", "r", "i", "c", "e">>)
            row == table[last.item].values
            Price(entry) ==
                IF DictHas(products, PyStr(entry.code))
                THEN DictGet(products, PyStr(entry.code)).float ELSE Num(FALSE, <<>>, 0)
            SumTo(entries) ==
                LET RECURSIVE Partial(_)
                    Partial(n) == IF n = 0 THEN Num(FALSE, <<>>, 0)
                                  ELSE FloatAdd(Partial(n - 1),
                                                FloatMulInt(entries[n].qty, Price(entries[n])))
                IN Partial(Len(entries))
            Fee(converted) ==
                IF converted.raised # "" THEN Num(FALSE, <<>>, 0) ELSE converted.value
            Expected(entries) ==
                format_currency(PyFloat(FloatAdd(SumTo(entries.value),
                                                 Fee(FloatOf(row[ColumnIndex(<<"D", "e", "l", "i", "v", "e", "r", "y", " ", "F", "e", "e">>)])))))
            Shown(entries) ==
                /\ entries.raised = ""
                /\ Expected(entries).raised = ""
                /\ row[total] = Expected(entries).value.text
        IN /\ last.col_name \in {<<"P", "r", "o", "d", "u", "c", "t", "(", "s", ")">>, <<"D", "e", "l", "i", "v", "e", "r", "y", " ", "F", "e", "e">>} =>
                  Shown(parse_product_field(row[ColumnIndex(<<"P", "r", "o", "d", "u", "c", "t", "(", "s", ")">>)]))
           /\ last.col_name \notin {<<"P", "r", "o", "d", "u", "c", "t", "(", "s", ")">>, <<"D", "e", "l", "i", "v", "e", "r", "y", " ", "F", "e", "e">>, <<"T", "o", "t", "a", "l", " ", "P", "r", "i", "c", "e">>} =>
                  row[total] = last.before[last.item].values[total]
           /\ \A j \in 1..Len(table) :
                  j # last.item => table[j].values[total] = last.before[j].values[total]

\* C20 holds after every edit during which neither parse_product_field nor
\* format_currency raises.
C20_WhenNothingRaises ==
    (/\ last.op = "edit"
     /\ \/ parse_product_field(table[last.item].values[ColumnIndex(<<"P", "r", "o", "d", "u", "c", "t", "(", "s", ")">>)]).raised # ""
        \/ FloatOf(table[last.item].values[ColumnIndex(<<"D", "e", "l", "i", "v", "e", "r", "y", " ", "F", "e", "e">>)]) = Returned(NaN))
        \/ C20_TotalFollowsEdit

\* Save CSV ran with a path and built the Orders of the rows.
SavedOrders ==
    last.op = "save_csv" /\ Len(last.filepath) > 0 /\ last.orders.raised = ""

\* C21: for every table row whose Delivery Fee cell is a numeric string, the
\* Order that Save CSV builds from the row has delivery_fee equal to that
\* number, whatever the row's Total Price cell contains; in particular
\* after the Total Price cell was recalculated and written in currency
\* format by an earlier edit of the row.
C21_SavedFeeIsCellFee ==
    SavedOrders =>
        \A i \in 1..Len(table) :
            LET Same(fee) ==
                    (fee.raised = "" /\ fee.value.kind # "nan")
                        => last.orders.value[i].delivery_fee = fee.value
            IN Same(FloatOf(table[i].values[ColumnIndex(<<"D", "e", "l", "i", "v", "e", "r", "y", " ", "F", "e", "e">>)]))

\* C21 holds for every row whose Total Price cell is empty or a text that
\* float() accepts.
C21_WhenTotalIsPlain ==
    SavedOrders =>
        \A i \in 1..Len(table) :
            LET total == table[i].values[ColumnIndex(<<"T", "o", "t", "a", "l", " ", "P", "r", "i", "c", "e">>)]
                Same(fee) ==
                    (fee.raised = "" /\ fee.value.kind # "nan")
                        => last.orders.value[i].delivery_fee = fee.value
            IN (Len(total) = 0 \/ FloatOf(total).raised = "")
                   => Same(FloatOf(table[i].values[ColumnIndex(<<"D", "e", "l", "i", "v", "e", "r", "y", " ", "F", "e", "e">>)]))

\* C22: whenever a table row is not highlighted as invalid, the Order built
\* from that row by _convert_rows_to_orders satisfies Order.is_valid: a
\* non-blank client name, a non-blank phone, a non-blank address and a
\* non-negative delivery fee.
C22_NotInvalidIsValidOrder ==
    \A i \in 1..Len(table) :
        LET Valid(order) == order.raised = "" => is_valid(order.value)
        IN ~Contains(table[i].tags, <<"i", "n", "v", "a", "l", "i", "d">>) => Valid(RowOrder(table[i].values, products))

\* C22 holds for every row that has a client name.
C22_WhenNamed ==
    \A i \in 1..Len(table) :
        LET Valid(order) == order.raised = "" => is_valid(order.value)
        IN (/\ ~Contains(table[i].tags, <<"i", "n", "v", "a", "l", "i", "d">>)
            /\ Len(Strip(table[i].values[ColumnIndex(<<"C", "l", "i", "e", "n", "t", " ", "N", "a", "m", "e">>)])) > 0)
               => Valid(RowOrder(table[i].values, products))

\* C23: Load CSV is all-or-nothing for the table: when import_orders
\* succeeds, the table afterwards contains exactly one row per record of the
\* file, in file order, and none of the rows it held before; when
\* import_orders fails (missing or unreadable file) or the file dialog is
\* cancelled, the table's rows are exactly those it held before.
C23_LoadReplacesOrKeeps ==
    last.op = "load_csv" =>
        LET Cell(record, c) ==
                IF DictHas(record, PyStr(COLUMNS[c])) THEN CellText(DictGet(record, PyStr(COLUMNS[c])))
                ELSE IF COLUMNS[c] = <<"S", "t", "a", "t", "u", "s">> THEN <<"P", "e", "n", "d", "i", "n", "g">> ELSE <<>>
            RowsOf(imported) ==
                IF Len(last.filepath) = 0 \/ imported.raised # "" THEN table = last.before
                ELSE /\ Len(table) = Len(imported.value)
                     /\ \A i \in 1..Len(table) : \A c \in 1..Len(COLUMNS) :
                            table[i].values[c] = Cell(imported.value[i], c)
        IN RowsOf(import_orders(orders_file))

\* A table that held a row was replaced by the two records of a file.
C23_Witness ==
    /\ last.op = "load_csv" /\ Len(last.filepath) > 0 /\ Len(last.before) > 0
    /\ orders_file.state = "ok" /\ Len(table) = 2 /\ table # last.before
    /\ table[2].values[ColumnIndex(<<"A", "d", "d", "r", "e", "s", "s">>)] = <<"L", "o", "t", " ", "5">>
    /\ table[2].values[ColumnIndex(<<"S", "t", "a", "t", "u", "s">>)] = <<"D", "o", "n", "e">>
    /\ table[1].values[ColumnIndex(<<"P", "h", "o", "n", "e">>)] = <<"0", "3", "4", "1", "2", "3", "4", "5", "6", "7">>


\* C24: a bulk status click with status s sets the Status column of every
\* selected row to s and leaves every other column of those rows, every cell
\* of every unselected row, and the number and order of rows unchanged; when
\* no row is selected, no row changes at all.
C24_StatusClickFrame ==
    last.op = "status" =>
        /\ Len(table) = Len(last.before)
        /\ \A i \in 1..Len(table) : \A c \in 1..Len(COLUMNS) :
               table[i].values[c] =
                   IF i \in last.selected /\ COLUMNS[c] = <<"S", "t", "a", "t", "u", "s">> THEN last.status
                   ELSE last.before[i].values[c]
        /\ last.selected = {} => table = last.before

\* One of two rows was selected and its status changed to Cancelled.
C24_Witness ==
    /\ last.op = "status" /\ Len(table) = 2 /\ last.selected = {2}
    /\ last.status = <<"C", "a", "n", "c", "e", "l", "l", "e", "d">>
    /\ last.before[2].values[ColumnIndex(<<"S", "t", "a", "t", "u", "s">>)] # <<"C", "a", "n", "c", "e", "l", "l", "e", "d">>
    /\ table[2].values[ColumnIndex(<<"S", "t", "a", "t", "u", "s">>)] = <<"C", "a", "n", "c", "e", "l", "l", "e", "d">>
    /\ table[1] = last.before[1]

\* C25: after every committed edit of an Address cell to a value that is not
\* blank, the trimmed value is the first entry returned by load_addresses;
\* a committed edit that sets a blank address, a cancelled edit (Escape), and
\* a committed edit of any other column leave the address history file
\* unchanged.
C25_AddressEditsReachHistory ==
    /\ (/\ last.op = "edit" /\ last.col_name = <<"A", "d", "d", "r", "e", "s", "s">>
        /\ Len(Strip(last.new_value)) > 0)
           => /\ Len(load_addresses(addresses_file)) > 0
              /\ load_addresses(addresses_file)[1] = Strip(last.new_value)
    /\ (\/ last.op = "cancel_edit"
        \/ /\ last.op = "edit"
           /\ (last.col_name # <<"A", "d", "d", "r", "e", "s", "s">> \/ Len(Strip(last.new_value)) = 0))
           => addresses_file = last.history

\* C25 holds for every edit whose text holds no line break.
C25_WithoutLineBreak ==
    (last.op = "edit" /\ \E k \in 1..Len(last.new_value) : last.new_value[k] \in {"\n", "\r"})
        \/ C25_AddressEditsReachHistory
(***************************************************************************)
(* The application's agent list and the agents dialog (ui/dialogs.py),    *)
(* for up to MaxDialogOps operations.                                      *)
(***************************************************************************)
MaxDialogOps == 5

\* The texts typed into the entry of the dialog.
AgentEntries == {<<>>, <<" ">>, <<"Z", "o">>, <<" ", "A", "l", " ">>}

\* The application was constructed: its list is what load_agents() gives
\* for the agents file, and the dialog is not open.
AgentsInit ==
    /\ agents_file \in {MissingFile, UnreadableFile, TextFile(<<"Z", "o", "\n">>), TextFile(<<"\n", " ", "\n">>),
                        TextFile(<<"Z", "o", "\n", "A", "l", "\n", "Z", "o", "\n">>)}
    /\ app_agents = load_agents(agents_file)
    /\ agents_dialog = NoDialog
    /\ table = <<>> /\ products = [type |-> "dict", keys |-> <<>>, vals |-> <<>>]
    /\ last = [op |-> "", n |-> 0]
    /\ instances = <<>> /\ saving = [phase |-> "idle"]
    /\ products_file = MissingFile /\ orders_file = MissingFile
    /\ export_call = NoExport /\ edited = NoEdit /\ loaded = NoLoad
    /\ ParseIdle
    /\ ValidateIdle
    /\ AddressIdle

\* What an operation of the dialog leaves in last: its name and the
\* application's list before it.
DialogOp(name) == [op |-> name, n |-> last.n + 1, app_before |-> app_agents]

\* Manage Agents: the dialog opens on a copy of the application's list. The
\* dialog grabs the input, so no second dialog opens beside it.
ManageAgents ==
    /\ last.n < MaxDialogOps /\ ~agents_dialog.open
    /\ agents_dialog' = [open |-> TRUE, agents |-> app_agents, listbox |-> app_agents]
    /\ last' = DialogOp("manage_agents")
    /\ UNCHANGED <<app_agents, table, products, instances, saving, parseVars, validateVars,
                   addressVars, fileVars>>

\* Add (or Return in the entry): the trimmed name joins the list and the
\* listbox, unless it is empty or already in the list.
AddAgent(text) ==
    LET agent_name == Strip(text)
    IN /\ last.n < MaxDialogOps /\ agents_dialog.open
       /\ agents_dialog' =
              IF Len(agent_name) = 0 \/ Contains(agents_dialog.agents, agent_name)
              THEN agents_dialog
              ELSE [agents_dialog EXCEPT !.agents = Append(@, agent_name),
                                         !.listbox = Append(@, agent_name)]
       /\ last' = DialogOp("add_agent")
       /\ UNCHANGED <<app_agents, table, products, instances, saving, parseVars, validateVars,
                      addressVars, fileVars>>

\* Remove Selected: with a line of the listbox selected and the removal
\* confirmed, the line leaves the listbox and the first agent of that name
\* leaves the list. index 0 stands for no selection.
RemoveAgent(index, confirm) ==
    LET agent == agents_dialog.listbox[index]
    IN /\ last.n < MaxDialogOps /\ agents_dialog.open
       /\ agents_dialog' =
              IF index = 0 \/ ~confirm THEN agents_dialog
              ELSE [agents_dialog EXCEPT
                       !.listbox = SubSeq(@, 1, index - 1) \o SubSeq(@, index + 1, Len(@)),
                       !.agents = RemoveFirst(@, agent)]
       /\ last' = DialogOp("remove_agent")
       /\ UNCHANGED <<app_agents, table, products, instances, saving, parseVars, validateVars,
                      addressVars, fileVars>>

\* Save & Close that hands an empty list to on_save as well.
SaveAndClose_AcceptsEmpty ==
    /\ last.n < MaxDialogOps /\ agents_dialog.open
    /\ app_agents' = agents_dialog.agents
    /\ agents_file' = save_agents(agents_file, agents_dialog.agents).file
    /\ agents_dialog' = NoDialog
    /\ last' = DialogOp("save_and_close")
    /\ UNCHANGED <<table, products, instances, saving, parseVars, validateVars, addressVars,
                   products_file, orders_file, export_call, edited, loaded>>

\* Save & Close: an empty list is refused with a warning and the dialog
\* stays; otherwise on_save makes the list the application's, save_agents
\* writes it to the agents file, and the dialog closes.
SaveAndClose ==
    /\ last.n < MaxDialogOps /\ agents_dialog.open
    /\ IF Len(agents_dialog.agents) = 0
       THEN UNCHANGED <<app_agents, agents_file, agents_dialog>>
       ELSE /\ app_agents' = agents_dialog.agents
            /\ agents_file' = save_agents(agents_file, agents_dialog.agents).file
            /\ agents_dialog' = NoDialog
    /\ last' = DialogOp("save_and_close")
    /\ UNCHANGED <<table, products, instances, saving, parseVars, validateVars, addressVars,
                   products_file, orders_file, export_call, edited, loaded>>

\* Cancel: the dialog is destroyed.
CancelDialog ==
    /\ last.n < MaxDialogOps /\ agents_dialog.open
    /\ agents_dialog' = NoDialog
    /\ last' = DialogOp("cancel")
    /\ UNCHANGED <<app_agents, table, products, instances, saving, parseVars, validateVars,
                   addressVars, fileVars>>

\* The application is closed and started again: the list is loaded from the
\* agents file.
Restart ==
    /\ last.n < MaxDialogOps /\ ~agents_dialog.open
    /\ app_agents' = load_agents(agents_file)
    /\ last' = DialogOp("restart")
    /\ UNCHANGED <<agents_dialog, table, products, instances, saving, parseVars, validateVars,
                   addressVars, fileVars>>

AgentsNext ==
    \/ ManageAgents
    \/ \E text \in AgentEntries : AddAgent(text)
    \/ \E index \in 0..Len(agents_dialog.listbox) : \E confirm \in BOOLEAN :
          RemoveAgent(index, confirm)
    \/ SaveAndClose
    \/ CancelDialog
    \/ Restart

SpecAgents == AgentsInit /\ [][AgentsNext]_vars

\* C26: in every reachable state the application's agent list is non-empty:
\* load_agents returns the default agents when the agents file is missing,
\* unreadable or has no non-blank line, and after any sequence of Add,
\* Remove Selected, Save & Close and Cancel in the agents dialog the
\* application's list is only ever replaced by a non-empty list (Save &
\* Close with an empty list is refused, Cancel leaves the application's
\* list as it was).
C26_AgentListNeverEmpty ==
    /\ Len(app_agents) > 0
    /\ (agents_file.state # "ok" \/ Len(ReadStrippedLines(agents_file)) = 0)
           => load_agents(agents_file) = DEFAULT_AGENTS
    /\ last.op \in {"manage_agents", "add_agent", "remove_agent", "cancel"}
           => app_agents = last.app_before
    /\ (last.op = "save_and_close" /\ app_agents # last.app_before)
           => (~agents_dialog.open /\ Len(app_agents) > 0)
    /\ (last.op = "save_and_close" /\ agents_dialog.open)
           => (Len(agents_dialog.agents) = 0 /\ app_agents = last.app_before)

\* Every agent was removed in the dialog and Save & Close was refused: the
\* dialog is still open and the application keeps its list.
C26_Witness ==
    /\ last.op = "save_and_close" /\ agents_dialog.open
    /\ Len(agents_dialog.agents) = 0
    /\ Len(app_agents) > 0 /\ app_agents = last.app_before

====
